---------------------------- MODULE Spec2Model ----------------------------
(***************************************************************************)
(* Model of the visa-bulletin acquisition and normalization pipeline       *)
(* (src/scraper.py): the text normalizer, the locator builder and the      *)
(* bulletin parser.                                                        *)
(*                                                                         *)
(* Text is a sequence of characters; a character is a one-character        *)
(* string, except for three characters that have no printable form and are *)
(* written as tokens: "NBSP" is U+00A0 (no-break space), "SHY" is U+00AD   *)
(* (soft hyphen) and "TAB" is U+0009.                                      *)
(*                                                                         *)
(* A document is the sequence of its <table> elements, a table the sequence*)
(* of its <tr> rows, a row the sequence of the texts of its <th>/<td>      *)
(* cells (what BeautifulSoup's find_all returns, in document order).       *)
(***************************************************************************)
EXTENDS Integers, Sequences, FiniteSets, TLC

VARIABLES
    fn,          \* the text function under call ("none" outside a call)
    arg,         \* its text argument (for get_bulletin_url: <<year, month>>)
    arg2,        \* its second argument (visa_type of normalize_category)
    done,        \* whether the call has returned
    result,      \* what the call returned (the empty text before it returns)
    tables,      \* parse_bulletin: soup.find_all("table")
    ti,          \* parse_bulletin: index of the next table of the for loop
    seen_count,  \* parse_bulletin: seen_count
    records,     \* parse_bulletin: records
    emitted,     \* the records the last loop iteration appended, each with
                 \* the row and data column it was appended for
    pc,          \* parse_bulletin: "idle", "loop" or "returned"
    g_args,      \* generate_month_range: <<start_year, start_month, end_year, end_month>>
    g_y,         \* generate_month_range: y
    g_m,         \* generate_month_range: m
    g_out,       \* the (year, month) pairs the generator has yielded so far
    g_pc,         \* generate_month_range: "idle", "created", "suspended" or "exhausted"
    db_bulletins, \* the committed rows of table bulletins: [id, bulletin_month]
    db_dates,    \* the committed rows of table priority_dates, in insertion order
    s_pc,        \* save_bulletin, per caller: "idle", "inserting", "failed", "inserted"
    s_txn,       \* save_bulletin, per caller: the arguments and the uncommitted rows
    s_log,        \* the arguments of the calls of save_bulletin that returned
    b_kind,      \* the batch driver that runs: "none", "scrape", "import_range" or "refresh"
    b_months,    \* its (year, month) list: months, months_to_fetch, available[:3]
    b_i,         \* the index in that list of the month of the current loop iteration
    b_pc,        \* the driver: "idle", "loop", "fetch", "save" or "done"
    b_records,   \* its local records, between parse_bulletin and save_bulletin
    b_imported,  \* imported (new_count in the refresh handler)
    b_skipped,   \* skipped
    b_errors,    \* errors, and for the refresh handler the sidebar warnings and errors
    b_fetched,   \* the month_str of the calls of fetch_bulletin_page of this run
    b_saved,      \* the month_str of the calls of save_bulletin of this run
    p_prev,       \* parse_bulletin: the document and the result of the previous call
    d_links,     \* check_latest_bulletin: the href of the links of the index page, in order
    d_i,         \* check_latest_bulletin: the index of the next link of the for loop
    d_bulletins, \* check_latest_bulletin: bulletins
    d_pc         \* check_latest_bulletin: "idle", "loop" or "returned"

genVars == <<g_args, g_y, g_m, g_out, g_pc>>

storeVars == <<db_bulletins, db_dates, s_pc, s_txn, s_log>>

driverVars == <<b_kind, b_months, b_i, b_pc, b_records, b_imported, b_skipped, b_errors, b_fetched, b_saved>>

reparseVars == <<p_prev>>

discVars == <<d_links, d_i, d_bulletins, d_pc>>

\* The variables of the generator, the store, the drivers, repeated parsing
\* and the scan of the index page.
laterVars == <<genVars, storeVars, driverVars, reparseVars, discVars>>

exceptParse == <<fn, arg, arg2, done, result, genVars, storeVars, driverVars, discVars>>
exceptGen == <<fn, arg, arg2, done, result, tables, ti, seen_count, records, emitted, pc,
              storeVars, driverVars, reparseVars, discVars>>
exceptStore == <<fn, arg, arg2, done, result, tables, ti, seen_count, records, emitted, pc,
                genVars, driverVars, reparseVars, discVars>>
exceptDriver == <<fn, arg, arg2, done, result, tables, ti, seen_count, records, emitted, pc,
                 genVars, s_pc, s_txn, s_log, reparseVars, discVars>>
exceptDiscover == <<fn, arg, arg2, done, result, tables, ti, seen_count, records, emitted, pc,
                   genVars, storeVars, driverVars, reparseVars>>

vars == <<fn, arg, arg2, done, result, tables, ti, seen_count, records, emitted, pc,
          laterVars>>

textVars == <<fn, arg, arg2, done, result>>
parseVars == <<tables, ti, seen_count, records, emitted, pc>>

-----------------------------------------------------------------------------
(* Characters *)

LowerLetters ==
    <<"a","b","c","d","e","f","g","h","i","j","k","l","m",
      "n","o","p","q","r","s","t","u","v","w","x","y","z">>

UpperLetters ==
    <<"A","B","C","D","E","F","G","H","I","J","K","L","M",
      "N","O","P","Q","R","S","T","U","V","W","X","Y","Z">>

DigitChars == <<"0","1","2","3","4","5","6","7","8","9">>

Range(s) == {s[i] : i \in 1..Len(s)}

IsLower(c) == c \in Range(LowerLetters)
IsUpper(c) == c \in Range(UpperLetters)
IsDigit(c) == c \in Range(DigitChars)

\* str.isspace() and the regex class \s on the characters of the model.
IsSpace(c) == c \in {" ", "TAB", "NBSP"}

\* The regex class \w: letters, digits and the underscore.
IsWord(c) == IsLower(c) \/ IsUpper(c) \/ IsDigit(c) \/ c = "_"

IndexOf(c, s) == CHOOSE i \in 1..Len(s) : s[i] = c

UpperChar(c) == IF IsLower(c) THEN UpperLetters[IndexOf(c, LowerLetters)] ELSE c
LowerChar(c) == IF IsUpper(c) THEN LowerLetters[IndexOf(c, UpperLetters)] ELSE c

\* str.upper() and str.lower()
Upper(s) == [i \in 1..Len(s) |-> UpperChar(s[i])]
Lower(s) == [i \in 1..Len(s) |-> LowerChar(s[i])]

DigitVal(c) == IndexOf(c, DigitChars) - 1

\* `sub in s` of Python
Contains(s, sub) ==
    \E i \in 0..(Len(s) - Len(sub)) :
        \A j \in 1..Len(sub) : s[i + j] = sub[j]

\* str.strip(): leading and trailing whitespace removed
Strip(s) ==
    LET keep == {i \in 1..Len(s) : ~IsSpace(s[i])}
    IN  IF keep = {} THEN <<>>
        ELSE LET lo == CHOOSE i \in keep : \A j \in keep : i <= j
                 hi == CHOOSE i \in keep : \A j \in keep : j <= i
             IN  SubSeq(s, lo, hi)

-----------------------------------------------------------------------------
(* _clean_text *)

\* unicodedata.normalize("NFKD", raw): U+00A0 decomposes to U+0020; the other
\* characters of the model have no decomposition.
NFKD(s) == [i \in 1..Len(s) |-> IF s[i] = "NBSP" THEN " " ELSE s[i]]

\* re.sub(r"\s+", " ", s): every maximal run of whitespace becomes one space.
CollapseSpaces(s) ==
    LET first == {i \in 1..Len(s) : ~IsSpace(s[i]) \/ i = 1 \/ ~IsSpace(s[i - 1])}
        f[i \in 0..Len(s)] ==
            IF i = 0 THEN <<>>
            ELSE IF i \in first
                 THEN Append(f[i - 1], IF IsSpace(s[i]) THEN " " ELSE s[i])
                 ELSE f[i - 1]
    IN  f[Len(s)]

\* s.replace("\u00ad", ""): soft hyphens removed
RemoveSoftHyphens(s) == SelectSeq(s, LAMBDA c : c # "SHY")

_clean_text(raw) == Strip(RemoveSoftHyphens(CollapseSpaces(NFKD(raw))))

-----------------------------------------------------------------------------
(* Bounds and input sets of the text functions *)

\* Longest raw text handed to _clean_text on its own.
MaxCleanLen == 5

\* One character of each class _clean_text tells apart: a letter, a hyphen,
\* an ASCII space, a no-break space, another whitespace, a soft hyphen.
CleanAlphabet == {"a", "-", " ", "NBSP", "TAB", "SHY"}

SeqsUpTo(S, n) == UNION {[1..k -> S] : k \in 0..n}

CleanInputs == SeqsUpTo(CleanAlphabet, MaxCleanLen)

\* No call of parse_bulletin before the current one.
NoPreviousCall == [valid |-> FALSE, doc |-> <<>>, records |-> <<>>]

\* The connections that may call save_bulletin at the same time: the command
\* line build and a session of the application.
Callers == {"build", "app"}

\* A connection without an open transaction.
NoTxn == [month_str |-> <<>>, records |-> <<>>, bulletin_id |-> 0, rows |-> <<>>]

GenIdle ==
    /\ g_args = <<>>
    /\ g_y = 0
    /\ g_m = 0
    /\ g_out = <<>>
    /\ g_pc = "idle"

StoreIdle ==
    /\ db_bulletins = {}
    /\ db_dates = <<>>
    /\ s_pc = [c \in Callers |-> "idle"]
    /\ s_txn = [c \in Callers |-> NoTxn]
    /\ s_log = {}

DriverIdle ==
    /\ b_kind = "none"
    /\ b_months = <<>>
    /\ b_i = 0
    /\ b_pc = "idle"
    /\ b_records = <<>>
    /\ b_imported = 0
    /\ b_skipped = 0
    /\ b_errors = <<>>
    /\ b_fetched = <<>>
    /\ b_saved = <<>>

ReparseIdle ==
    /\ p_prev = NoPreviousCall

DiscoverIdle ==
    /\ d_links = <<>>
    /\ d_i = 0
    /\ d_bulletins = <<>>
    /\ d_pc = "idle"

LaterIdle == GenIdle /\ StoreIdle /\ DriverIdle /\ ReparseIdle /\ DiscoverIdle

\* parse_bulletin is not under call.
ParserIdle ==
    /\ tables = <<>>
    /\ ti = 0
    /\ seen_count = [family |-> 0, employment |-> 0]
    /\ records = <<>>
    /\ emitted = <<>>
    /\ pc = "idle"

ParseIdle == LaterIdle /\ ParserIdle


-----------------------------------------------------------------------------
(* _clean_text called on a raw text, and again on its own output *)

InitClean ==
    /\ fn = "_clean_text"
    /\ arg \in CleanInputs
    /\ arg2 = ""
    /\ done = FALSE
    /\ result = <<>>
    /\ ParseIdle

CallClean ==
    /\ fn = "_clean_text"
    /\ ~done
    /\ done' = TRUE
    /\ result' = _clean_text(arg)
    /\ UNCHANGED <<fn, arg, arg2, parseVars, laterVars>>

\* clean(clean(x)): the output of a call is the input of the next one.
CallCleanAgain ==
    /\ fn = "_clean_text"
    /\ done
    /\ arg' = result
    /\ result' = _clean_text(result)
    /\ UNCHANGED <<fn, arg2, done, parseVars, laterVars>>

NextClean == CallClean \/ CallCleanAgain

SpecClean == InitClean /\ [][NextClean]_vars

\* C6: clean is idempotent: cleaning the output of clean gives it back,
\* clean(clean(x)) = clean(x), for every text of letters, hyphens, spaces,
\* no-break spaces, other whitespace and soft hyphens.
C6_CleanIdempotent ==
    (fn = "_clean_text" /\ done) => _clean_text(result) = result
-----------------------------------------------------------------------------
(* parse_date *)

\* The month abbreviations of the C locale, which %b matches ignoring case.
MonthAbbr ==
    << <<"J","A","N">>, <<"F","E","B">>, <<"M","A","R">>, <<"A","P","R">>, <<"M","A","Y">>, <<"J","U","N">>,
       <<"J","U","L">>, <<"A","U","G">>, <<"S","E","P">>, <<"O","C","T">>, <<"N","O","V">>, <<"D","E","C">> >>

IsLeap(y) == (y % 4 = 0) /\ ((y % 100 # 0) \/ (y % 400 = 0))

DaysInMonth(y, m) ==
    IF m = 2 THEN (IF IsLeap(y) THEN 29 ELSE 28)
    ELSE IF m \in {4, 6, 9, 11} THEN 30 ELSE 31

AllDigits(s) == \A i \in 1..Len(s) : IsDigit(s[i])

\* int() of a text of digits
RECURSIVE DigitsToInt(_)
DigitsToInt(s) ==
    IF s = <<>> THEN 0
    ELSE 10 * DigitsToInt(SubSeq(s, 1, Len(s) - 1)) + DigitVal(s[Len(s)])

\* str() of a natural number
RECURSIVE IntToDigits(_)
IntToDigits(n) ==
    IF n < 10 THEN <<DigitChars[n + 1]>>
    ELSE Append(IntToDigits(n \div 10), DigitChars[(n % 10) + 1])

\* The "%02d" of strftime's %m and %d
TwoDigits(n) == <<DigitChars[(n \div 10) + 1], DigitChars[(n % 10) + 1]>>

\* The lengths of the prefixes of s that the alternatives of the %d pattern
\* 3[0-1]|[1-2]\d|0[1-9]|[1-9]| [1-9] match, in the order the regex tries them.
DayAlternatives(s) ==
    LET c1 == IF Len(s) >= 1 THEN s[1] ELSE ""
        c2 == IF Len(s) >= 2 THEN s[2] ELSE ""
        nz(c) == IsDigit(c) /\ c # "0"
    IN  (IF c1 = "3" /\ c2 \in {"0", "1"} THEN <<2>> ELSE <<>>)
        \o (IF c1 \in {"1", "2"} /\ IsDigit(c2) THEN <<2>> ELSE <<>>)
        \o (IF c1 = "0" /\ nz(c2) THEN <<2>> ELSE <<>>)
        \o (IF nz(c1) THEN <<1>> ELSE <<>>)
        \o (IF c1 = " " /\ nz(c2) THEN <<2>> ELSE <<>>)

\* Whether, after a day of dlen characters, s goes on with a month
\* abbreviation and ylen digits (the rest of the pattern of the format).
RestMatches(s, dlen, ylen) ==
    /\ Len(s) >= dlen + 3 + ylen
    /\ Upper(SubSeq(s, dlen + 1, dlen + 3)) \in Range(MonthAbbr)
    /\ AllDigits(SubSeq(s, dlen + 4, dlen + 3 + ylen))

\* datetime.strptime(s, "%d%b%y") for ylen = 2 and datetime.strptime(s,
\* "%d%b%Y") for ylen = 4: ok is FALSE where strptime raises ValueError (no
\* match, unconverted data remains, or no such calendar day).
Strptime(s, ylen) ==
    LET alts == DayAlternatives(s)
        hits == {k \in 1..Len(alts) : RestMatches(s, alts[k], ylen)}
    IN  IF hits = {} THEN [ok |-> FALSE]
        ELSE LET k    == CHOOSE h \in hits : \A g \in hits : h <= g
                 dlen == alts[k]
                 d    == DigitsToInt(Strip(SubSeq(s, 1, dlen)))
                 m    == IndexOf(Upper(SubSeq(s, dlen + 1, dlen + 3)), MonthAbbr)
                 yy   == DigitsToInt(SubSeq(s, dlen + 4, dlen + 3 + ylen))
                 y    == IF ylen = 4 THEN yy
                         ELSE IF yy <= 68 THEN 2000 + yy ELSE 1900 + yy
             IN  IF Len(s) # dlen + 3 + ylen \/ y < 1 \/ d > DaysInMonth(y, m)
                 THEN [ok |-> FALSE]
                 ELSE [ok |-> TRUE, year |-> y, month |-> m, day |-> d]

\* dt.strftime("%Y-%m-%d"): the C library's %Y prints the year without
\* leading zeros.
Strftime(dt) ==
    IntToDigits(dt.year) \o <<"-">> \o TwoDigits(dt.month) \o <<"-">> \o TwoDigits(dt.day)

parse_date(date_str) ==
    LET s == Upper(_clean_text(date_str))
    IN  IF s \in {<<"C">>, <<"C","U","R","R","E","N","T">>} THEN <<"C">>
        ELSE IF s \in {<<"U">>, <<"U","N","A","V","A","I","L","A","B","L","E">>} THEN <<"U">>
        ELSE IF Strptime(s, 2).ok THEN Strftime(Strptime(s, 2))
        ELSE IF Strptime(s, 4).ok THEN Strftime(Strptime(s, 4))
        ELSE s
-----------------------------------------------------------------------------
(* parse_date called on a date cell *)

DayParts == {<<>>, <<"1">>, <<"9">>, <<"0","1">>, <<"2","9">>, <<"3","0">>, <<"3","1">>, <<"3","2">>, <<"0">>, <<"0","0">>}

MonthParts == {<<"J","A","N">>, <<"f","e","b">>, <<"F","e","b">>, <<"A","P","R">>, <<"D","E","C">>, <<"F","SHY","E","B">>, <<"S","E","P","T">>, <<"X","Y">>}

YearParts ==
    {<<>>, <<"2","3">>, <<"2","4">>, <<"6","8">>, <<"6","9">>, <<"0","0">>, <<"2","0","2","3">>, <<"2","0","2","4">>, <<"1","9","0","0">>,
     <<"2","0","0","0">>, <<"0","9","9","9">>, <<"0","0","0","1">>, <<"0","0","0","0">>, <<"0","2","3">>, <<"2","0","2","3","4">>}

LeftPads == {<<>>, <<" ">>, <<"NBSP">>}

RightPads == {<<>>, <<"TAB">>}

DateWords ==
    {<<>>, <<"c">>, <<"C">>, <<"c","u","r","r","e","n","t">>, <<"C","u","r","r","e","n","t">>, <<"C","U","R","R","E","N","T">>, <<"u">>, <<"U">>,
     <<"u","n","a","v","a","i","l","a","b","l","e">>, <<"U","n","a","v","a","i","l","a","b","l","e">>, <<"U","N","A","V","A","I","L","A","B","L","E">>, <<"g","a","r","b","a","g","e">>, <<"c","u">>,
     <<"C"," ","U">>, <<"c","u","r","r","e","n","t"," ","d","a","t","e">>, <<"n","/","a">>, <<"-">>}

DateInputs ==
    {l \o w \o r : l \in LeftPads, w \in DateWords, r \in RightPads}
    \cup {l \o d \o m \o y \o r :
            l \in LeftPads, d \in DayParts, m \in MonthParts, y \in YearParts,
            r \in RightPads}

InitDate ==
    /\ fn = "parse_date"
    /\ arg \in DateInputs
    /\ arg2 = ""
    /\ done = FALSE
    /\ result = <<>>
    /\ ParseIdle

CallParseDate ==
    /\ fn = "parse_date"
    /\ ~done
    /\ done' = TRUE
    /\ result' = parse_date(arg)
    /\ UNCHANGED <<fn, arg, arg2, parseVars, laterVars>>

NextDate == CallParseDate

SpecDate == InitDate /\ [][NextDate]_vars

\* A date token as the claim describes it: a day of one or two digits, a
\* month abbreviation and a year of two or four digits that together name a
\* day of the calendar (a two-digit year 00..68 is 2000..2068 and 69..99 is
\* 1969..1999).
TokenShape(t) ==
    {sh \in {1, 2} \X {2, 4} :
        /\ Len(t) = sh[1] + 3 + sh[2]
        /\ AllDigits(SubSeq(t, 1, sh[1]))
        /\ SubSeq(t, sh[1] + 1, sh[1] + 3) \in Range(MonthAbbr)
        /\ AllDigits(SubSeq(t, sh[1] + 4, Len(t)))}

TokenDate(t) ==
    LET sh == CHOOSE x \in TokenShape(t) : TRUE
        yy == DigitsToInt(SubSeq(t, sh[1] + 4, Len(t)))
    IN  [day   |-> DigitsToInt(SubSeq(t, 1, sh[1])),
         month |-> IndexOf(SubSeq(t, sh[1] + 1, sh[1] + 3), MonthAbbr),
         year  |-> IF sh[2] = 4 THEN yy
                   ELSE IF yy <= 68 THEN 2000 + yy ELSE 1900 + yy]

IsDateToken(t) ==
    /\ TokenShape(t) # {}
    /\ TokenDate(t).year \in 1..9999
    /\ TokenDate(t).day \in 1..DaysInMonth(TokenDate(t).year, TokenDate(t).month)

\* ISO 8601 calendar date: YYYY-MM-DD with a four-digit year.
IsoDate(dt) ==
    TwoDigits(dt.year \div 100) \o TwoDigits(dt.year % 100)
    \o <<"-">> \o TwoDigits(dt.month) \o <<"-">> \o TwoDigits(dt.day)

ClaimedDate(raw) ==
    LET t == Upper(_clean_text(raw))
    IN  IF t = <<"C">> \/ t = <<"C","U","R","R","E","N","T">> THEN <<"C">>
        ELSE IF t = <<"U">> \/ t = <<"U","N","A","V","A","I","L","A","B","L","E">> THEN <<"U">>
        ELSE IF IsDateToken(t) THEN IsoDate(TokenDate(t))
        ELSE t

\* C7: parse_date_token returns "C" for C or CURRENT, "U" for U or
\* UNAVAILABLE (any letter case), the ISO calendar date for a valid DDMonYY
\* or DDMonYYYY token, and otherwise the cleaned, uppercased text unchanged.
C7_ParseDateExact ==
    (fn = "parse_date" /\ done) => result = ClaimedDate(arg)

\* The same, for the tokens whose year has no leading zero when written with
\* four digits (years 1000..9999).
C7_ParseDateExactFrom1000 ==
    (fn = "parse_date" /\ done
        /\ (IsDateToken(Upper(_clean_text(arg)))
              => TokenDate(Upper(_clean_text(arg))).year >= 1000))
    => result = ClaimedDate(arg)
-----------------------------------------------------------------------------
(* normalize_country and normalize_category *)

\* re.sub(r"(\w)-\s*(\w)", r"\1\2", s): scanning from the left, a word
\* character, a hyphen, any whitespace and a word character are replaced by
\* the two word characters; the scan goes on after the match, so the second
\* word character does not start another match.
RECURSIVE DehyphenateFrom(_, _)
DehyphenateFrom(s, i) ==
    IF i > Len(s) THEN <<>>
    ELSE LET after == {j \in (i + 2)..Len(s) : ~IsSpace(s[j])}
             j == CHOOSE x \in after : \A y \in after : x <= y
         IN  IF /\ IsWord(s[i])
                /\ i + 1 <= Len(s)
                /\ s[i + 1] = "-"
                /\ after # {}
                /\ IsWord(s[j])
             THEN <<s[i], s[j]>> \o DehyphenateFrom(s, j + 1)
             ELSE <<s[i]>> \o DehyphenateFrom(s, i + 1)

Dehyphenate(s) == DehyphenateFrom(s, 1)

AllChargeabilityAreas == <<"A","l","l"," ","C","h","a","r","g","e","a","b","i","l","i","t","y"," ","A","r","e","a","s">>
China == <<"C","h","i","n","a">>
India == <<"I","n","d","i","a">>
Mexico == <<"M","e","x","i","c","o">>
Philippines == <<"P","h","i","l","i","p","p","i","n","e","s">>

\* abbrev_map
AbbrevKeys == {<<"C","H">>, <<"I","N">>, <<"M","E">>, <<"M","X">>, <<"P","H">>}

AbbrevMap(a) ==
    IF a = <<"C","H">> THEN China
    ELSE IF a = <<"I","N">> THEN India
    ELSE IF a = <<"M","E">> \/ a = <<"M","X">> THEN Mexico
    ELSE Philippines

\* The rule for All Chargeability Areas with the other grouping of its
\* operators: (chargeability or charge) and except.
NormalizeCountryOrFirst(raw) ==
    LET cleaned == _clean_text(raw)
        lowered == Lower(Dehyphenate(cleaned))
        abbrev  == Strip(Upper(cleaned))
    IN  IF (Contains(lowered, <<"c","h","a","r","g","e","a","b","i","l","i","t","y">>) \/ Contains(lowered, <<"c","h","a","r","g","e">>))
            /\ Contains(lowered, <<"e","x","c","e","p","t">>)
        THEN AllChargeabilityAreas
        ELSE IF Contains(lowered, <<"c","h","i","n","a">>) THEN China
        ELSE IF Contains(lowered, <<"i","n","d","i","a">>) THEN India
        ELSE IF Contains(lowered, <<"m","e","x","i","c","o">>) THEN Mexico
        ELSE IF Contains(lowered, <<"p","h","i","l","i","p">>) THEN Philippines
        ELSE IF abbrev \in AbbrevKeys THEN AbbrevMap(abbrev)
        ELSE cleaned

normalize_country(raw) ==
    LET cleaned == _clean_text(raw)
        lowered == Lower(Dehyphenate(cleaned))
        abbrev  == Strip(Upper(cleaned))
    IN  IF Contains(lowered, <<"c","h","a","r","g","e","a","b","i","l","i","t","y">>)
            \/ (Contains(lowered, <<"c","h","a","r","g","e">>) /\ Contains(lowered, <<"e","x","c","e","p","t">>))
        THEN AllChargeabilityAreas
        ELSE IF Contains(lowered, <<"c","h","i","n","a">>) THEN China
        ELSE IF Contains(lowered, <<"i","n","d","i","a">>) THEN India
        ELSE IF Contains(lowered, <<"m","e","x","i","c","o">>) THEN Mexico
        ELSE IF Contains(lowered, <<"p","h","i","l","i","p">>) THEN Philippines
        ELSE IF abbrev \in AbbrevKeys THEN AbbrevMap(abbrev)
        ELSE cleaned

\* re.sub(r"\*+$", "", s): the asterisks that end the text are removed.
StripTrailingAsterisks(s) ==
    LET keep == {i \in 1..Len(s) : s[i] # "*"}
    IN  IF keep = {} THEN <<>>
        ELSE SubSeq(s, 1, CHOOSE i \in keep : \A j \in keep : j <= i)

\* The employment rules with "other worker" tried after "religious".
NormalizeCategoryReligiousFirst(raw, visa_type) ==
    LET cleaned == Strip(StripTrailingAsterisks(_clean_text(raw)))
        lowered == Lower(Dehyphenate(cleaned))
        has(w)  == Contains(lowered, w)
    IN  IF visa_type = "family" THEN
            IF lowered \in {<<"f","1">>, <<"1","s","t">>, <<"1","s","t"," ","p","r","e","f","e","r","e","n","c","e">>} THEN <<"F","1">>
            ELSE IF lowered \in {<<"f","2","a">>, <<"2","a">>} THEN <<"F","2","A">>
            ELSE IF lowered \in {<<"f","2","b">>, <<"2","b">>} THEN <<"F","2","B">>
            ELSE IF lowered \in {<<"f","3">>, <<"3","r","d">>, <<"3","r","d"," ","p","r","e","f","e","r","e","n","c","e">>} THEN <<"F","3">>
            ELSE IF lowered \in {<<"f","4">>, <<"4","t","h">>, <<"4","t","h"," ","p","r","e","f","e","r","e","n","c","e">>} THEN <<"F","4">>
            ELSE IF Len(cleaned) <= 4 THEN Upper(cleaned)
            ELSE cleaned
        ELSE
            IF lowered \in {<<"1","s","t">>, <<"1","s","t"," ","p","r","e","f","e","r","e","n","c","e">>} THEN <<"E","B","-","1">>
            ELSE IF lowered \in {<<"2","n","d">>, <<"2","n","d"," ","p","r","e","f","e","r","e","n","c","e">>} THEN <<"E","B","-","2">>
            ELSE IF lowered \in {<<"3","r","d">>, <<"3","r","d"," ","p","r","e","f","e","r","e","n","c","e">>} THEN <<"E","B","-","3">>
            ELSE IF lowered \in {<<"4","t","h">>, <<"4","t","h"," ","p","r","e","f","e","r","e","n","c","e">>} THEN <<"E","B","-","4">>
            ELSE IF has(<<"r","e","l","i","g","i","o","u","s"," ","w","o","r","k","e","r">>) \/ (has(<<"r","e","l","i","g","i","o","u","s">>) /\ has(<<"w","o","r","k","e","r">>))
                 THEN <<"E","B","-","4"," ","R","e","l","i","g","i","o","u","s"," ","W","o","r","k","e","r","s">>
            ELSE IF has(<<"o","t","h","e","r"," ","w","o","r","k","e","r">>) THEN <<"E","B","-","3"," ","O","t","h","e","r"," ","W","o","r","k","e","r","s">>
            ELSE IF has(<<"5","t","h">>) \/ has(<<"f","i","f","t","h">>) THEN
                IF has(<<"u","n","r","e","s","e","r","v","e","d">>) THEN <<"E","B","-","5"," ","U","n","r","e","s","e","r","v","e","d">>
                ELSE IF has(<<"r","u","r","a","l">>) THEN <<"E","B","-","5"," ","R","u","r","a","l">>
                ELSE IF has(<<"h","i","g","h"," ","u","n","e","m","p","l","o","y","m","e","n","t">>) THEN <<"E","B","-","5"," ","H","i","g","h"," ","U","n","e","m","p","l","o","y","m","e","n","t">>
                ELSE IF has(<<"i","n","f","r","a","s","t","r","u","c","t","u","r","e">>) THEN <<"E","B","-","5"," ","I","n","f","r","a","s","t","r","u","c","t","u","r","e">>
                ELSE IF has(<<"t","a","r","g","e","t","e","d">>) \/ has(<<"r","e","g","i","o","n","a","l">>) THEN <<"E","B","-","5"," ","T","a","r","g","e","t","e","d">>
                ELSE <<"E","B","-","5">>
            ELSE IF has(<<"t","a","r","g","e","t","e","d">>) /\ has(<<"e","m","p","l","o","y","m","e","n","t">>) THEN <<"E","B","-","5"," ","T","a","r","g","e","t","e","d">>
            ELSE IF has(<<"s","c","h","e","d","u","l","e"," ","a">>) THEN <<"S","c","h","e","d","u","l","e"," ","A"," ","W","o","r","k","e","r","s">>
            ELSE IF has(<<"i","r","a","q","i">>) \/ has(<<"a","f","g","h","a","n","i">>) \/ has(<<"t","r","a","n","s","l","a","t","o","r">>)
                 THEN <<"I","r","a","q","i","/","A","f","g","h","a","n","i"," ","T","r","a","n","s","l","a","t","o","r","s">>
            ELSE cleaned

normalize_category(raw, visa_type) ==
    LET cleaned == Strip(StripTrailingAsterisks(_clean_text(raw)))
        lowered == Lower(Dehyphenate(cleaned))
        has(w)  == Contains(lowered, w)
    IN  IF visa_type = "family" THEN
            IF lowered \in {<<"f","1">>, <<"1","s","t">>, <<"1","s","t"," ","p","r","e","f","e","r","e","n","c","e">>} THEN <<"F","1">>
            ELSE IF lowered \in {<<"f","2","a">>, <<"2","a">>} THEN <<"F","2","A">>
            ELSE IF lowered \in {<<"f","2","b">>, <<"2","b">>} THEN <<"F","2","B">>
            ELSE IF lowered \in {<<"f","3">>, <<"3","r","d">>, <<"3","r","d"," ","p","r","e","f","e","r","e","n","c","e">>} THEN <<"F","3">>
            ELSE IF lowered \in {<<"f","4">>, <<"4","t","h">>, <<"4","t","h"," ","p","r","e","f","e","r","e","n","c","e">>} THEN <<"F","4">>
            ELSE IF Len(cleaned) <= 4 THEN Upper(cleaned)
            ELSE cleaned
        ELSE
            IF lowered \in {<<"1","s","t">>, <<"1","s","t"," ","p","r","e","f","e","r","e","n","c","e">>} THEN <<"E","B","-","1">>
            ELSE IF lowered \in {<<"2","n","d">>, <<"2","n","d"," ","p","r","e","f","e","r","e","n","c","e">>} THEN <<"E","B","-","2">>
            ELSE IF lowered \in {<<"3","r","d">>, <<"3","r","d"," ","p","r","e","f","e","r","e","n","c","e">>} THEN <<"E","B","-","3">>
            ELSE IF has(<<"o","t","h","e","r"," ","w","o","r","k","e","r">>) THEN <<"E","B","-","3"," ","O","t","h","e","r"," ","W","o","r","k","e","r","s">>
            ELSE IF lowered \in {<<"4","t","h">>, <<"4","t","h"," ","p","r","e","f","e","r","e","n","c","e">>} THEN <<"E","B","-","4">>
            ELSE IF has(<<"r","e","l","i","g","i","o","u","s"," ","w","o","r","k","e","r">>) \/ (has(<<"r","e","l","i","g","i","o","u","s">>) /\ has(<<"w","o","r","k","e","r">>))
                 THEN <<"E","B","-","4"," ","R","e","l","i","g","i","o","u","s"," ","W","o","r","k","e","r","s">>
            ELSE IF has(<<"5","t","h">>) \/ has(<<"f","i","f","t","h">>) THEN
                IF has(<<"u","n","r","e","s","e","r","v","e","d">>) THEN <<"E","B","-","5"," ","U","n","r","e","s","e","r","v","e","d">>
                ELSE IF has(<<"r","u","r","a","l">>) THEN <<"E","B","-","5"," ","R","u","r","a","l">>
                ELSE IF has(<<"h","i","g","h"," ","u","n","e","m","p","l","o","y","m","e","n","t">>) THEN <<"E","B","-","5"," ","H","i","g","h"," ","U","n","e","m","p","l","o","y","m","e","n","t">>
                ELSE IF has(<<"i","n","f","r","a","s","t","r","u","c","t","u","r","e">>) THEN <<"E","B","-","5"," ","I","n","f","r","a","s","t","r","u","c","t","u","r","e">>
                ELSE IF has(<<"t","a","r","g","e","t","e","d">>) \/ has(<<"r","e","g","i","o","n","a","l">>) THEN <<"E","B","-","5"," ","T","a","r","g","e","t","e","d">>
                ELSE <<"E","B","-","5">>
            ELSE IF has(<<"t","a","r","g","e","t","e","d">>) /\ has(<<"e","m","p","l","o","y","m","e","n","t">>) THEN <<"E","B","-","5"," ","T","a","r","g","e","t","e","d">>
            ELSE IF has(<<"s","c","h","e","d","u","l","e"," ","a">>) THEN <<"S","c","h","e","d","u","l","e"," ","A"," ","W","o","r","k","e","r","s">>
            ELSE IF has(<<"i","r","a","q","i">>) \/ has(<<"a","f","g","h","a","n","i">>) \/ has(<<"t","r","a","n","s","l","a","t","o","r">>)
                 THEN <<"I","r","a","q","i","/","A","f","g","h","a","n","i"," ","T","r","a","n","s","l","a","t","o","r","s">>
            ELSE cleaned
-----------------------------------------------------------------------------
(* normalize_country called on a header cell *)

\* Most fragments a country header is put together from.
MaxCountryFrags == 3

CountryFrags ==
    {<<"c","h","i","n","a">>, <<"I","N","D","I","A">>, <<"M","e","x","i","c","o">>, <<"p","h","i","l","i","p">>, <<"c","h","a","r","g","e">>, <<"a","b","i","l","i","t","y">>,
     <<"e","x","c","e","p","t">>, <<"C","H">>, <<"i","n">>, <<"-">>, <<" ">>, <<"x">>}

RECURSIVE Concat(_)
Concat(ss) == IF ss = <<>> THEN <<>> ELSE Head(ss) \o Concat(Tail(ss))

CountryWords ==
    {<<"M","E">>, <<"M","X">>, <<"P","H">>, <<"m","x">>, <<"P","h">>, <<" ","I","N","NBSP">>, <<"C","-","H">>, <<"P","H","I","L","I","P","-","NBSP","P","I","N","E","S">>,
     <<"P","H","I","L","I","P","SHY","P","I","N","E","S">>, <<"U","n","k","n","o","w","n","l","a","n","d">>, <<"C","H","I","N","A","-"," ","m","a","i","n","l","a","n","d"," ","b","o","r","n">>,
     <<"A","l","l"," ","C","h","a","r","g","e","a","b","i","l","i","t","y"," ","A","r","e","a","s"," ","E","x","c","e","p","t"," ","T","h","o","s","e"," ","L","i","s","t","e","d">>, <<"c","h","i","-","n","-","a">>, <<"C","H","N">>}

CountryInputs ==
    {Concat(ss) : ss \in SeqsUpTo(CountryFrags, MaxCountryFrags)} \cup CountryWords

InitCountry ==
    /\ fn = "normalize_country"
    /\ arg \in CountryInputs
    /\ arg2 = ""
    /\ done = FALSE
    /\ result = <<>>
    /\ ParseIdle

CallNormalizeCountry ==
    /\ fn = "normalize_country"
    /\ ~done
    /\ done' = TRUE
    /\ result' = normalize_country(arg)
    /\ UNCHANGED <<fn, arg, arg2, parseVars, laterVars>>

NextCountry == CallNormalizeCountry

SpecCountry == InitCountry /\ [][NextCountry]_vars

\* The value of the first rule of an ordered rule table whose predicate holds;
\* a rule is a pair <<predicate, value>>.
FirstMatch(rules) ==
    rules[CHOOSE i \in 1..Len(rules) :
            rules[i][1] /\ \A j \in 1..(i - 1) : ~rules[j][1]][2]

\* The rule table of the claim, on the cleaned text c and its hyphen-repaired,
\* lowercased form l.
CountryRules(c, l) ==
    << <<Contains(l, <<"c","h","a","r","g","e","a","b","i","l","i","t","y">>)
           \/ (Contains(l, <<"c","h","a","r","g","e">>) /\ Contains(l, <<"e","x","c","e","p","t">>)),
         <<"A","l","l"," ","C","h","a","r","g","e","a","b","i","l","i","t","y"," ","A","r","e","a","s">>>>,
       <<Contains(l, <<"c","h","i","n","a">>), <<"C","h","i","n","a">>>>,
       <<Contains(l, <<"i","n","d","i","a">>), <<"I","n","d","i","a">>>>,
       <<Contains(l, <<"m","e","x","i","c","o">>), <<"M","e","x","i","c","o">>>>,
       <<Contains(l, <<"p","h","i","l","i","p">>), <<"P","h","i","l","i","p","p","i","n","e","s">>>>,
       <<Upper(c) = <<"C","H">>, <<"C","h","i","n","a">>>>,
       <<Upper(c) = <<"I","N">>, <<"I","n","d","i","a">>>>,
       <<Upper(c) = <<"M","E">>, <<"M","e","x","i","c","o">>>>,
       <<Upper(c) = <<"M","X">>, <<"M","e","x","i","c","o">>>>,
       <<Upper(c) = <<"P","H">>, <<"P","h","i","l","i","p","p","i","n","e","s">>>>,
       <<TRUE, c>> >>

ArgLowered == Lower(Dehyphenate(_clean_text(arg)))

\* C8: normalize_country is the priority-ordered rule table, first match
\* wins: All Chargeability Areas (chargeability, or charge and except), then
\* China, India, Mexico, Philippines by keyword, then the two-letter
\* abbreviations, then the cleaned input verbatim. A text with both "china"
\* and "india" gives China, and "charge" without "except" and without
\* "chargeability" does not give All Chargeability Areas.
C8_CountryRuleOrder ==
    (fn = "normalize_country" /\ done) =>
        /\ result = FirstMatch(CountryRules(_clean_text(arg), ArgLowered))
        /\ (/\ Contains(ArgLowered, <<"c","h","i","n","a">>)
            /\ Contains(ArgLowered, <<"i","n","d","i","a">>)
            /\ ~Contains(ArgLowered, <<"c","h","a","r","g","e">>)) => result = <<"C","h","i","n","a">>
        /\ (/\ Contains(ArgLowered, <<"c","h","a","r","g","e">>)
            /\ ~Contains(ArgLowered, <<"e","x","c","e","p","t">>)
            /\ ~Contains(ArgLowered, <<"c","h","a","r","g","e","a","b","i","l","i","t","y">>))
           => result # <<"A","l","l"," ","C","h","a","r","g","e","a","b","i","l","i","t","y"," ","A","r","e","a","s">>

\* A header with "india" before "china" was normalized to China.
C8_Witness ==
    /\ fn = "normalize_country"
    /\ done
    /\ arg = <<"I","N","D","I","A"," ","c","h","i","n","a">>
    /\ result = <<"C","h","i","n","a">>
-----------------------------------------------------------------------------
(* normalize_category called on the first cell of a data row *)

\* Most fragments a category cell is put together from.
MaxCategoryFrags == 2

CategoryFrags ==
    {<<"f","1">>, <<"2","A">>, <<"2","b">>, <<"F","3">>, <<"1","s","t">>, <<"2","n","d">>, <<"3","r","d">>, <<"4","t","h">>, <<"5","t","h">>,
     <<"f","i","f","t","h">>, <<" ","p","r","e","f","e","r","e","n","c","e">>, <<"*">>, <<"-">>, <<" ">>, <<"o","t","h","e","r"," ","w","o","r","k","e","r">>,
     <<"r","e","l","i","g","i","o","u","s">>, <<"w","o","r","k","e","r">>, <<"u","n","r","e","s","e","r","v","e","d">>, <<"r","u","r","a","l">>, <<"t","a","r","g","e","t","e","d">>,
     <<"e","m","p","l","o","y","m","e","n","t">>, <<"s","c","h","e","d","u","l","e"," ","a">>, <<"t","r","a","n","s","l","a","t","o","r">>}

CategoryWords ==
    {<<"F","2","A">>, <<"F","-","2","A">>, <<"f","4","*">>, <<"F","2","B"," ","*","*">>, <<"a","b","c","d">>, <<"a","b","c","d","e">>, <<"a","b","-","c">>,
     <<"1","s","t"," ","P","r","e","f","e","r","e","n","c","e","*","*">>, <<"O","t","h","e","r"," ","W","o","r","k","e","r","s">>, <<"C","e","r","t","a","i","n"," ","R","e","l","i","g","i","o","u","s"," ","W","o","r","k","e","r","s">>,
     <<"r","e","l","i","g","i","o","u","s"," ","o","t","h","e","r"," ","w","o","r","k","e","r","s">>, <<"5","t","h"," ","u","n","r","e","s","e","r","v","e","d"," ","r","u","r","a","l">>,
     <<"5","t","h"," ","r","u","r","a","l"," ","h","i","g","h"," ","u","n","e","m","p","l","o","y","m","e","n","t">>, <<"5","t","h"," ","h","i","g","h"," ","u","n","e","m","p","l","o","y","m","e","n","t"," ","i","n","f","r","a","s","t","r","u","c","t","u","r","e">>,
     <<"5","t","h"," ","i","n","f","r","a","s","t","r","u","c","t","u","r","e"," ","t","a","r","g","e","t","e","d">>, <<"5","t","h"," ","r","e","g","i","o","n","a","l"," ","c","e","n","t","e","r">>,
     <<"f","i","f","t","h"," ","h","i","g","h"," ","u","n","e","m","p","l","o","y","m","e","n","t">>, <<"5","t","h"," ","i","n","f","r","a","s","t","r","u","c","t","u","r","e">>,
     <<"5","t","h"," ","N","o","n","-","R","e","g","i","o","n","a","l"," ","C","e","n","t","e","r">>, <<"T","a","r","g","e","t","e","d"," ","E","m","p","l","o","y","-","NBSP","m","e","n","t"," ","A","r","e","a","s">>,
     <<"S","c","h","e","d","u","l","e"," ","A"," ","W","o","r","k","e","r","s">>, <<"I","r","a","q","i"," ","a","n","d"," ","A","f","g","h","a","n","i"," ","T","r","a","n","s","l","a","t","o","r","s">>, <<"a","f","g","h","a","n","i">>,
     <<"i","r","a","q","i">>, <<"r","e","g","i","o","n","a","l">>, <<"h","i","g","h"," ","u","n","e","m","p","l","o","y","m","e","n","t">>, <<"SHY","3","r","d","TAB">>}

CategoryInputs ==
    {Concat(ss) : ss \in SeqsUpTo(CategoryFrags, MaxCategoryFrags)}
    \cup CategoryWords

VisaTypes == {"family", "employment"}

InitCategory ==
    /\ fn = "normalize_category"
    /\ arg \in CategoryInputs
    /\ arg2 \in VisaTypes
    /\ done = FALSE
    /\ result = <<>>
    /\ ParseIdle

CallNormalizeCategory ==
    /\ fn = "normalize_category"
    /\ ~done
    /\ done' = TRUE
    /\ result' = normalize_category(arg, arg2)
    /\ UNCHANGED <<fn, arg, arg2, parseVars, laterVars>>

NextCategory == CallNormalizeCategory

SpecCategory == InitCategory /\ [][NextCategory]_vars

\* The family rule table of the claim, on the cleaned text c (its trailing
\* asterisks removed) and its hyphen-repaired, lowercased form l.
FamilyRules(c, l) ==
    << <<l \in {<<"f","1">>, <<"1","s","t">>, <<"1","s","t"," ","p","r","e","f","e","r","e","n","c","e">>}, <<"F","1">>>>,
       <<l \in {<<"f","2","a">>, <<"2","a">>}, <<"F","2","A">>>>,
       <<l \in {<<"f","2","b">>, <<"2","b">>}, <<"F","2","B">>>>,
       <<l \in {<<"f","3">>, <<"3","r","d">>, <<"3","r","d"," ","p","r","e","f","e","r","e","n","c","e">>}, <<"F","3">>>>,
       <<l \in {<<"f","4">>, <<"4","t","h">>, <<"4","t","h"," ","p","r","e","f","e","r","e","n","c","e">>}, <<"F","4">>>>,
       <<Len(c) <= 4, Upper(c)>>,
       <<TRUE, c>> >>

\* The employment rule table; ord(n) is the set of texts that count as the
\* n-th preference.
EmploymentRules(c, l, ord(_)) ==
    LET has(w) == Contains(l, w)
        fifth  == has(<<"5","t","h">>) \/ has(<<"f","i","f","t","h">>)
    IN  << <<l \in ord(1), <<"E","B","-","1">>>>,
           <<l \in ord(2), <<"E","B","-","2">>>>,
           <<l \in ord(3), <<"E","B","-","3">>>>,
           <<has(<<"o","t","h","e","r"," ","w","o","r","k","e","r">>), <<"E","B","-","3"," ","O","t","h","e","r"," ","W","o","r","k","e","r","s">>>>,
           <<l \in ord(4), <<"E","B","-","4">>>>,
           <<has(<<"r","e","l","i","g","i","o","u","s">>) /\ has(<<"w","o","r","k","e","r">>), <<"E","B","-","4"," ","R","e","l","i","g","i","o","u","s"," ","W","o","r","k","e","r","s">>>>,
           <<fifth /\ has(<<"u","n","r","e","s","e","r","v","e","d">>), <<"E","B","-","5"," ","U","n","r","e","s","e","r","v","e","d">>>>,
           <<fifth /\ has(<<"r","u","r","a","l">>), <<"E","B","-","5"," ","R","u","r","a","l">>>>,
           <<fifth /\ has(<<"h","i","g","h"," ","u","n","e","m","p","l","o","y","m","e","n","t">>), <<"E","B","-","5"," ","H","i","g","h"," ","U","n","e","m","p","l","o","y","m","e","n","t">>>>,
           <<fifth /\ has(<<"i","n","f","r","a","s","t","r","u","c","t","u","r","e">>), <<"E","B","-","5"," ","I","n","f","r","a","s","t","r","u","c","t","u","r","e">>>>,
           <<fifth /\ (has(<<"t","a","r","g","e","t","e","d">>) \/ has(<<"r","e","g","i","o","n","a","l">>)), <<"E","B","-","5"," ","T","a","r","g","e","t","e","d">>>>,
           <<fifth, <<"E","B","-","5">>>>,
           <<has(<<"t","a","r","g","e","t","e","d">>) /\ has(<<"e","m","p","l","o","y","m","e","n","t">>), <<"E","B","-","5"," ","T","a","r","g","e","t","e","d">>>>,
           <<has(<<"s","c","h","e","d","u","l","e"," ","a">>), <<"S","c","h","e","d","u","l","e"," ","A"," ","W","o","r","k","e","r","s">>>>,
           <<has(<<"i","r","a","q","i">>) \/ has(<<"a","f","g","h","a","n","i">>) \/ has(<<"t","r","a","n","s","l","a","t","o","r">>),
             <<"I","r","a","q","i","/","A","f","g","h","a","n","i"," ","T","r","a","n","s","l","a","t","o","r","s">>>>,
           <<TRUE, c>> >>

Ordinals == << <<"1","s","t">>, <<"2","n","d">>, <<"3","r","d">>, <<"4","t","h">> >>

\* The n-th preference as the claim writes it for employment: the ordinal.
OrdinalOnly(n) == {Ordinals[n]}

\* The n-th preference as the ordinal or the ordinal followed by "preference".
OrdinalOrPreference(n) == {Ordinals[n], Ordinals[n] \o <<" ","p","r","e","f","e","r","e","n","c","e">>}

ArgCategoryCleaned == Strip(StripTrailingAsterisks(_clean_text(arg)))

ArgCategoryLowered == Lower(Dehyphenate(ArgCategoryCleaned))

CategoryByRules(ord(_)) ==
    IF arg2 = "family"
    THEN FirstMatch(FamilyRules(ArgCategoryCleaned, ArgCategoryLowered))
    ELSE FirstMatch(EmploymentRules(ArgCategoryCleaned, ArgCategoryLowered, ord))

\* C9 as stated: normalize_category equals the priority-ordered rule table
\* of its visa_type, first match wins, with a final passthrough; for
\* employment the texts 1st, 2nd, 3rd and 4th give EB-1 .. EB-4.
C9_CategoryRuleTable ==
    (fn = "normalize_category" /\ done) => result = CategoryByRules(OrdinalOnly)

\* C9 as amended: the same rule table, where for employment "1st
\* preference" .. "4th preference" give EB-1 .. EB-4 as the bare ordinals
\* do; and the token "1st" gives F1 for family and EB-1 for employment.
C9_CategoryRuleTableAmended ==
    (fn = "normalize_category" /\ done) =>
        /\ result = CategoryByRules(OrdinalOrPreference)
        /\ ArgCategoryLowered = <<"1","s","t">> =>
              result = (IF arg2 = "family" THEN <<"F","1">> ELSE <<"E","B","-","1">>)

\* "1st preference" in an employment table was normalized to EB-1.
C9_Witness ==
    /\ fn = "normalize_category"
    /\ done
    /\ arg2 = "employment"
    /\ ArgCategoryLowered = <<"1","s","t"," ","p","r","e","f","e","r","e","n","c","e">>
    /\ result = <<"E","B","-","1">>
-----------------------------------------------------------------------------
(* get_fiscal_year and get_bulletin_url *)

BASE_URL == <<"h","t","t","p","s",":","/","/","t","r","a","v","e","l",".","s","t","a","t","e",".","g","o","v">>

MONTH_NAMES ==
    << <<"j","a","n","u","a","r","y">>, <<"f","e","b","r","u","a","r","y">>, <<"m","a","r","c","h">>, <<"a","p","r","i","l">>, <<"m","a","y">>, <<"j","u","n","e">>,
       <<"j","u","l","y">>, <<"a","u","g","u","s","t">>, <<"s","e","p","t","e","m","b","e","r">>, <<"o","c","t","o","b","e","r">>, <<"n","o","v","e","m","b","e","r">>, <<"d","e","c","e","m","b","e","r">> >>

\* The fiscal year taken to start in November.
GetFiscalYearFromNovember(year, month) == IF month > 10 THEN year + 1 ELSE year

get_fiscal_year(year, month) == IF month >= 10 THEN year + 1 ELSE year

get_bulletin_url(year, month) ==
    LET fy == get_fiscal_year(year, month)
        month_name == MONTH_NAMES[month]
    IN  BASE_URL \o <<"/","c","o","n","t","e","n","t","/","t","r","a","v","e","l","/","e","n","/","l","e","g","a","l","/","v","i","s","a","-","l","a","w","0","/","v","i","s","a","-","b","u","l","l","e","t","i","n">>
        \o <<"/">> \o IntToDigits(fy) \o <<"/","v","i","s","a","-","b","u","l","l","e","t","i","n","-","f","o","r","-">> \o month_name
        \o <<"-">> \o IntToDigits(year) \o <<".","h","t","m","l">>

\* The last calendar year the import form accepts.
LastYear == 2026

\* How many calendar years, up to LastYear, locators are built for.
NumYears == 5

LocatorYears == (LastYear - NumYears + 1)..LastYear

InitLocator ==
    /\ fn = "get_bulletin_url"
    /\ arg \in LocatorYears \X (1..12)
    /\ arg2 = ""
    /\ done = FALSE
    /\ result = <<>>
    /\ ParseIdle

CallGetBulletinUrl ==
    /\ fn = "get_bulletin_url"
    /\ ~done
    /\ done' = TRUE
    /\ result' = get_bulletin_url(arg[1], arg[2])
    /\ UNCHANGED <<fn, arg, arg2, parseVars, laterVars>>

NextLocator == CallGetBulletinUrl

SpecLocator == InitLocator /\ [][NextLocator]_vars

\* C10: for every calendar year and month 1..12 the locator embeds the
\* fiscal year (year + 1 when month >= 10, else year), the lowercase full
\* name of the month and the calendar year; (2025, 10) gives fiscal year
\* 2026 and (2025, 9) gives fiscal year 2025.
C10_LocatorFiscalYear ==
    (fn = "get_bulletin_url" /\ done) =>
        LET year  == arg[1]
            month == arg[2]
            fy    == IF month \in {10, 11, 12} THEN year + 1 ELSE year
        IN  /\ result = BASE_URL
                  \o <<"/","c","o","n","t","e","n","t","/","t","r","a","v","e","l","/","e","n","/","l","e","g","a","l","/","v","i","s","a","-","l","a","w","0","/","v","i","s","a","-","b","u","l","l","e","t","i","n","/">>
                  \o IntToDigits(fy) \o <<"/","v","i","s","a","-","b","u","l","l","e","t","i","n","-","f","o","r","-">>
                  \o MONTH_NAMES[month] \o <<"-">> \o IntToDigits(year) \o <<".","h","t","m","l">>
            /\ arg = <<2025, 10>> =>
                  Contains(result, <<"/","2","0","2","6","/","v","i","s","a","-","b","u","l","l","e","t","i","n","-","f","o","r","-","o","c","t","o","b","e","r","-","2","0","2","5",".","h","t","m","l">>)
            /\ arg = <<2025, 9>> =>
                  Contains(result, <<"/","2","0","2","5","/","v","i","s","a","-","b","u","l","l","e","t","i","n","-","f","o","r","-","s","e","p","t","e","m","b","e","r","-","2","0","2","5",".","h","t","m","l">>)

\* The locator of October 2025 was built, in fiscal year 2026.
C10_Witness ==
    /\ fn = "get_bulletin_url"
    /\ done
    /\ arg = <<2025, 10>>
    /\ Contains(result, <<"/","2","0","2","6","/">>)
-----------------------------------------------------------------------------
(* parse_bulletin *)

\* cell.get_text(strip=True) of a cell that holds one text node.
GetText(cell) == Strip(cell)

\* The header text that names neither program taken for an employment table.
IdentifyDefaultEmployment(header_text) ==
    LET h == Lower(_clean_text(header_text))
    IN  IF Contains(h, <<"f","a","m","i","l","y">>) THEN "family" ELSE "employment"

\* "None" stands for Python's None.
_identify_table_by_header(header_text) ==
    LET h == Lower(_clean_text(header_text))
    IN  IF Contains(h, <<"f","a","m","i","l","y">>) THEN "family"
        ELSE IF Contains(h, <<"e","m","p","l","o","y","m","e","n","t">>) THEN "employment"
        ELSE "None"

\* One counter for both programs.
IncrementBoth(seen, visa_type) == [v \in DOMAIN seen |-> seen[v] + 1]

\* seen_count[visa_type] += 1
IncrementSeen(seen, visa_type) == [seen EXCEPT ![visa_type] = @ + 1]

\* "final_action" if seen_count[visa_type] == 1 else "filing"
TableType(count) == IF count = 1 THEN "final_action" ELSE "filing"

\* The loop over header_cells[1:]: the countries of the header cells whose
\* normalized text is not empty, in order.
RECURSIVE HeaderCountries(_)
HeaderCountries(cells) ==
    IF cells = <<>> THEN <<>>
    ELSE LET country == normalize_country(GetText(Head(cells)))
         IN  (IF country # <<>> THEN <<country>> ELSE <<>>)
             \o HeaderCountries(Tail(cells))

\* The loop over enumerate(cells[1:]) from data column j on (j = i + 1), with
\* an empty cell ending the row.
RECURSIVE CellEventsStopAtEmpty(_, _, _, _, _)
CellEventsStopAtEmpty(cells, j, base, countries, ri) ==
    IF j > Len(cells) - 1 \/ j > Len(countries) THEN <<>>
    ELSE LET date_text == GetText(cells[j + 1])
         IN  IF date_text = <<>> THEN <<>>
             ELSE << [rec |-> [table_type    |-> base.table_type,
                               visa_type     |-> base.visa_type,
                               category      |-> base.category,
                               country       |-> countries[j],
                               priority_date |-> parse_date(date_text)],
                      row |-> ri, col |-> j] >>
                  \o CellEventsStopAtEmpty(cells, j + 1, base, countries, ri)

\* The loop over enumerate(cells[1:]) from data column j on (j = i + 1): the
\* records appended for row ri, each with the row and the column it is for.
RECURSIVE CellEvents(_, _, _, _, _)
CellEvents(cells, j, base, countries, ri) ==
    IF j > Len(cells) - 1 \/ j > Len(countries) THEN <<>>
    ELSE LET date_text == GetText(cells[j + 1])
         IN  (IF date_text = <<>> THEN <<>>
              ELSE << [rec |-> [table_type    |-> base.table_type,
                                visa_type     |-> base.visa_type,
                                category      |-> base.category,
                                country       |-> countries[j],
                                priority_date |-> parse_date(date_text)],
                       row |-> ri, col |-> j] >>)
             \o CellEvents(cells, j + 1, base, countries, ri)

\* The loop over rows[1:] from row ri on.
RECURSIVE RowEvents(_, _, _, _, _)
RowEvents(rows, ri, visa_type, table_type, countries) ==
    IF ri > Len(rows) THEN <<>>
    ELSE LET cells == rows[ri]
             raw_category == GetText(cells[1])
         IN  (IF Len(cells) < 2 THEN <<>>
              ELSE IF raw_category = <<>> THEN <<>>
              ELSE CellEvents(cells, 1,
                              [table_type |-> table_type,
                               visa_type  |-> visa_type,
                               category   |-> normalize_category(raw_category, visa_type)],
                              countries, ri))
             \o RowEvents(rows, ri + 1, visa_type, table_type, countries)

\* An iteration that counts a table only once its header has given countries.
LoopBodyCountAfterCountries(seen, rows) ==
    IF Len(rows) < 2 THEN [seen_count |-> seen, events |-> <<>>]
    ELSE IF rows[1] = <<>> THEN [seen_count |-> seen, events |-> <<>>]
    ELSE LET header_cells == rows[1]
             visa_type == _identify_table_by_header(GetText(header_cells[1]))
         IN  IF visa_type = "None" THEN [seen_count |-> seen, events |-> <<>>]
             ELSE LET countries == HeaderCountries(Tail(header_cells))
                      seen2 == IncrementSeen(seen, visa_type)
                  IN  IF countries = <<>>
                      THEN [seen_count |-> seen, events |-> <<>>]
                      ELSE [seen_count |-> seen2,
                            events |-> RowEvents(rows, 2, visa_type,
                                                 TableType(seen2[visa_type]), countries)]

\* One iteration of the loop over the tables: the new seen_count and what
\* the iteration appends to records.
LoopBody(seen, rows) ==
    IF Len(rows) < 2 THEN [seen_count |-> seen, events |-> <<>>]
    ELSE IF rows[1] = <<>> THEN [seen_count |-> seen, events |-> <<>>]
    ELSE LET header_cells == rows[1]
             visa_type == _identify_table_by_header(GetText(header_cells[1]))
         IN  IF visa_type = "None" THEN [seen_count |-> seen, events |-> <<>>]
             ELSE LET seen2 == IncrementSeen(seen, visa_type)
                      table_type == TableType(seen2[visa_type])
                      countries == HeaderCountries(Tail(header_cells))
                  IN  IF countries = <<>>
                      THEN [seen_count |-> seen2, events |-> <<>>]
                      ELSE [seen_count |-> seen2,
                            events |-> RowEvents(rows, 2, visa_type, table_type,
                                                 countries)]

Recs(events) == [i \in 1..Len(events) |-> events[i].rec]

\* parse_bulletin on the tables from index i on, with the state the loop has
\* reached.
RECURSIVE ParseFrom(_, _, _, _)
ParseFrom(doc, i, seen, recs) ==
    IF i > Len(doc) THEN recs
    ELSE LET step == LoopBody(seen, doc[i])
         IN  ParseFrom(doc, i + 1, step.seen_count, recs \o Recs(step.events))

parse_bulletin(doc) == ParseFrom(doc, 1, [family |-> 0, employment |-> 0], <<>>)
-----------------------------------------------------------------------------
(* Documents handed to parse_bulletin *)

\* Most tables of a document.
MaxTables == 3

\* Most country cells of a generated header; a generated data row has up to
\* one data cell more.
MaxCols == 2

EmploymentTable ==
    << << <<"E","m","p","l","o","y","m","e","n","t","-","b","a","s","e","d">>, <<"C","h","i","n","a">>, <<"I","n","d","i","a">> >>,
       << <<"1","s","t">>, <<"0","1","F","E","B","2","3">>, <<"C">> >> >>

FamilyTable ==
    << << <<"F","a","m","i","l","y","-","S","p","o","n","s","o","r","e","d">>, <<"A","l","l"," ","C","h","a","r","g","e","a","b","i","l","i","t","y"," ","A","r","e","a","s"," ","E","x","c","e","p","t"," ","T","h","o","s","e"," ","L","i","s","t","e","d">>,
          <<"C","H","I","N","A","-"," ","m","a","i","n","l","a","n","d"," ","b","o","r","n">>, <<"P","H","I","L","I","P","-","P","I","N","E","S">> >>,
       << <<"F","1">>, <<"0","1","J","A","N","1","5">>, <<"C">>, <<"0","8","M","A","R","1","2">> >>,
       << <<"F","2","A","*">>, <<"NBSP">>, <<"U">>, <<"c">> >> >>

OtherFamilyTable ==
    << << <<"F","A","M","I","L","Y"," ","p","r","e","f","e","r","e","n","c","e">>, <<"M","E","X","I","C","O">> >>,
       << <<"4","t","h">>, <<"2","2","A","P","R","2","0","0","1">> >> >>

NotesTable ==
    << << <<"N","o","t","e","s">>, <<"C","h","i","n","a">> >>,
       << <<"1","s","t">>, <<"C">> >> >>

\* A family header without any country cell.
NoCountryTable ==
    << << <<"F","a","m","i","l","y">> >>,
       << <<"F","1">>, <<"C">> >> >>

\* A header row alone: no data row.
HeaderOnlyTable == << << <<"E","m","p","l","o","y","m","e","n","t">>, <<"I","n","d","i","a">> >> >>

\* A first row without cells.
NoHeaderCellTable ==
    << <<>>,
       << <<"F","1">>, <<"C">> >> >>

TableVocabulary ==
    {EmploymentTable, FamilyTable, OtherFamilyTable, NotesTable,
     NoCountryTable, HeaderOnlyTable, NoHeaderCellTable}

\* Generated tables: a header of one program with up to MaxCols country
\* cells, a generated data row, and a fixed row before or after it.
HeaderCells == {<<"C","h","i","n","a">>, <<>>, <<"I","N">>}

DataCells == {<<"C">>, <<>>}

GeneratedHeaders ==
    {<<first>> \o cs :
        first \in {<<"F","a","m","i","l","y">>, <<"E","m","p","l","o","y","m","e","n","t">>},
        cs \in SeqsUpTo(HeaderCells, MaxCols)}

GeneratedRows ==
    {<<>>}
    \cup {<<category>> \o cs :
            category \in {<<"1","s","t">>, <<>>},
            cs \in SeqsUpTo(DataCells, MaxCols + 1)}

FixedRow == << <<"2","n","d">>, <<"U">>, <<"0","1","M","A","R","2","4">>, <<"C">>, <<"C">> >>

EmptyCategoryRow == << <<" ">>, <<"C">>, <<"C">> >>

GeneratedTables ==
    {<<h>> \o rows :
        h \in GeneratedHeaders,
        rows \in UNION {{<<r>>, <<r, FixedRow>>, <<EmptyCategoryRow, r>>} :
                          r \in GeneratedRows}}

Documents ==
    SeqsUpTo(TableVocabulary, MaxTables) \cup {<<t>> : t \in GeneratedTables}

TextIdle ==
    /\ fn = "none"
    /\ arg = <<>>
    /\ arg2 = ""
    /\ done = FALSE
    /\ result = <<>>

-----------------------------------------------------------------------------
(* parse_bulletin as the loop over the tables of a document *)

\* The state at the head of the loop: records = [], seen_count at zero.
InitParse ==
    /\ TextIdle
    /\ LaterIdle
    /\ tables \in Documents
    /\ ti = 1
    /\ seen_count = [family |-> 0, employment |-> 0]
    /\ records = <<>>
    /\ emitted = <<>>
    /\ pc = "loop"

\* One iteration of `for table in tables`.
ParseTable ==
    /\ pc = "loop"
    /\ ti <= Len(tables)
    /\ LET step == LoopBody(seen_count, tables[ti])
       IN  /\ seen_count' = step.seen_count
           /\ records' = records \o Recs(step.events)
           /\ emitted' = step.events
    /\ ti' = ti + 1
    /\ UNCHANGED <<tables, pc, textVars, laterVars>>

\* return records
ParseReturn ==
    /\ pc = "loop"
    /\ ti > Len(tables)
    /\ pc' = "returned"
    /\ UNCHANGED <<tables, ti, seen_count, records, emitted, textVars, laterVars>>

NextParse == ParseTable \/ ParseReturn

SpecParse == InitParse /\ [][NextParse]_vars
-----------------------------------------------------------------------------
(* Claims about parse_bulletin *)

\* The table the last iteration of the loop was about.
LastTable == tables[ti - 1]

\* Whether the first header cell of table t names the program vt: "family"
\* where its text contains "family", "employment" where it contains
\* "employment" and not "family" (letter case ignored).
FirstHeaderNames(t, vt) ==
    LET h == Lower(_clean_text(GetText(t[1][1])))
    IN  IF vt = "family" THEN Contains(h, <<"f","a","m","i","l","y">>)
        ELSE Contains(h, <<"e","m","p","l","o","y","m","e","n","t">>) /\ ~Contains(h, <<"f","a","m","i","l","y">>)

\* A table with a header row and at least one data row whose first header
\* cell classifies as visa_type vt.
Counted(t, vt) ==
    /\ Len(t) >= 2
    /\ Len(t[1]) >= 1
    /\ FirstHeaderNames(t, vt)

\* How many of the first k tables of the document are counted for vt.
Rank(k, vt) == Cardinality({i \in 1..k : Counted(tables[i], vt)})

\* A table whose first header cell names neither program.
Unclassified(t) ==
    /\ Len(t) >= 1
    /\ Len(t[1]) >= 1
    /\ \A vt \in VisaTypes : ~FirstHeaderNames(t, vt)

\* C1: counting per visa_type the tables that have a header row and a data
\* row and whose first header cell classifies as that visa_type, every record
\* emitted from the 1st such table is final_action and every record from the
\* 2nd is filing; tables of the other visa_type in between do not change it.
C1_FirstFinalSecondFiling ==
    (pc \in {"loop", "returned"} /\ ti > 1) =>
        \A vt \in VisaTypes :
            Counted(LastTable, vt) =>
                /\ Rank(ti - 1, vt) = 1 =>
                      \A k \in 1..Len(emitted) :
                          /\ emitted[k].rec.table_type = "final_action"
                          /\ emitted[k].rec.visa_type = vt
                /\ Rank(ti - 1, vt) = 2 =>
                      \A k \in 1..Len(emitted) :
                          /\ emitted[k].rec.table_type = "filing"
                          /\ emitted[k].rec.visa_type = vt

\* The second family table of a document, after an employment table that
\* lies between the two, has emitted filing records.
C1_Witness ==
    /\ pc = "loop"
    /\ ti = 4
    /\ Counted(tables[1], "family")
    /\ Counted(tables[2], "employment")
    /\ Counted(tables[3], "family")
    /\ emitted # <<>>
    /\ emitted[1].rec.table_type = "filing"

\* C2: per document and visa_type at most one table contributes final_action
\* records and at most one contributes filing records: a third or later
\* table of the same visa_type contributes no records.
C2_ThirdTableIgnored ==
    (pc \in {"loop", "returned"} /\ ti > 1) =>
        \A vt \in VisaTypes :
            (Counted(LastTable, vt) /\ Rank(ti - 1, vt) >= 3) => emitted = <<>>

\* C3: the record emitted for the data cell in column j carries the country
\* that normalize_country gives for the header cell of the same column j.
C3_ColumnCountry ==
    (pc \in {"loop", "returned"} /\ ti > 1) =>
        \A k \in 1..Len(emitted) :
            emitted[k].rec.country =
                normalize_country(GetText(LastTable[1][emitted[k].col + 1]))

\* The number of countries of a header: its cells after the first whose
\* normalized text is not empty.
NumCountries(header) ==
    Cardinality({j \in 2..Len(header) :
                    normalize_country(GetText(header[j])) # <<>>})

\* The data cells of table t that the claim says give a record: row r has a
\* category, column j is one of the first k and its cell is not empty.
RecordCells(t, k) ==
    {rc \in (2..Len(t)) \X (1..k) :
        /\ Len(t[rc[1]]) >= rc[2] + 1
        /\ GetText(t[rc[1]][1]) # <<>>
        /\ GetText(t[rc[1]][rc[2] + 1]) # <<>>}

\* C4: within one classified table with k countries, exactly one record is
\* emitted for each non-empty data cell in columns 1..k of each row whose
\* category cell is not empty, in row-major order, with that row's category
\* and that cell's date; empty cells, cells beyond the k-th country and rows
\* with an empty category emit nothing and stop nothing after them.
C4_OneRecordPerCell ==
    (pc \in {"loop", "returned"} /\ ti > 1) =>
        \A vt \in VisaTypes :
            (Counted(LastTable, vt) /\ NumCountries(LastTable[1]) >= 1) =>
                /\ {<<emitted[k].row, emitted[k].col>> : k \in 1..Len(emitted)}
                      = RecordCells(LastTable, NumCountries(LastTable[1]))
                /\ \A k \in 1..(Len(emitted) - 1) :
                      \/ emitted[k].row < emitted[k + 1].row
                      \/ /\ emitted[k].row = emitted[k + 1].row
                         /\ emitted[k].col < emitted[k + 1].col
                /\ \A k \in 1..Len(emitted) :
                      /\ emitted[k].rec.category =
                            normalize_category(
                                GetText(LastTable[emitted[k].row][1]), vt)
                      /\ emitted[k].rec.priority_date =
                            parse_date(GetText(
                                LastTable[emitted[k].row][emitted[k].col + 1]))

\* A row of three data cells under a header of two countries has given one
\* record, for the cell that follows its empty first cell.
C4_Witness ==
    /\ pc = "loop"
    /\ ti = 2
    /\ tables[1][1] = << <<"E","m","p","l","o","y","m","e","n","t">>, <<"C","h","i","n","a">>, <<"I","N">> >>
    /\ tables[1][2] = << <<"1","s","t">>, <<>>, <<"C">>, <<"C">> >>
    /\ Len(emitted) = 1
    /\ emitted[1].col = 2
    /\ emitted[1].rec.country = <<"I","n","d","i","a">>

\* C5: a table whose first header cell contains neither "family" nor
\* "employment" contributes no records, and the records of the document are
\* those of the document without such tables, labels and order included.
C5_UnclassifiedTableIgnored ==
    /\ (pc \in {"loop", "returned"} /\ ti > 1 /\ Unclassified(LastTable))
          => emitted = <<>>
    /\ pc = "returned" =>
          records = parse_bulletin(SelectSeq(tables, LAMBDA t : ~Unclassified(t)))

\* A document with a Notes table between two family tables was parsed.
C5_Witness ==
    /\ pc = "returned"
    /\ Len(tables) = 3
    /\ Counted(tables[1], "family")
    /\ Unclassified(tables[2])
    /\ Counted(tables[3], "family")
    /\ records # <<>>
    /\ records[Len(records)].table_type = "filing"

\* Everything at rest but one component.
IdleExceptGen == TextIdle /\ ParserIdle /\ ReparseIdle /\ StoreIdle /\ DriverIdle /\ DiscoverIdle
IdleExceptStore == TextIdle /\ ParserIdle /\ ReparseIdle /\ GenIdle /\ DriverIdle /\ DiscoverIdle
IdleExceptDriver == TextIdle /\ ParserIdle /\ ReparseIdle /\ GenIdle /\ StoreIdle /\ DiscoverIdle
IdleExceptParse == TextIdle /\ GenIdle /\ StoreIdle /\ DriverIdle /\ DiscoverIdle
IdleExceptDiscover == TextIdle /\ ParserIdle /\ ReparseIdle /\ GenIdle /\ StoreIdle /\ DriverIdle

\* ---------------------------------------------------------------------------
\* generate_month_range (src/scraper.py)
\* ---------------------------------------------------------------------------

NumRangeYears == 2

\* The years the range inputs of the application allow, cut to the last few.
RangeYears == (LastYear - NumRangeYears + 1)..LastYear

RangeMonths == 1..12

RangeInputs == RangeYears \X RangeMonths \X RangeYears \X RangeMonths

\* (y, m) <= (end_year, end_month), a tuple comparison that is strict instead.
WhileConditionExclusive(y, m, end_year, end_month) ==
    \/ y < end_year
    \/ (y = end_year /\ m < end_month)

\* (y, m) <= (end_year, end_month): Python compares the tuples lexicographically.
WhileCondition(y, m, end_year, end_month) ==
    \/ y < end_year
    \/ (y = end_year /\ m <= end_month)

\* m += 1; if m > 12: m = 1; y += 1
AdvanceMonth(y, m) ==
    IF m + 1 > 12 THEN <<y + 1, 1>> ELSE <<y, m + 1>>

RECURSIVE MonthRangeFrom(_, _, _, _)
\* The list the generator yields from (y, m) on: list(generate_month_range(...)).
MonthRangeFrom(y, m, end_year, end_month) ==
    IF WhileCondition(y, m, end_year, end_month)
    THEN <<<<y, m>>>> \o MonthRangeFrom(AdvanceMonth(y, m)[1], AdvanceMonth(y, m)[2],
                                        end_year, end_month)
    ELSE <<>>

generate_month_range(start_year, start_month, end_year, end_month) ==
    MonthRangeFrom(start_year, start_month, end_year, end_month)

\* A call creates the generator: nothing runs until the first next().
InitRange ==
    /\ IdleExceptGen
    /\ g_args \in RangeInputs
    /\ g_y = g_args[1]
    /\ g_m = g_args[2]
    /\ g_out = <<>>
    /\ g_pc = "created"

\* One next() on the generator: it resumes after the yield (or at the top on
\* the first call), advances, tests the loop condition, and either yields the
\* next pair or returns.
GenNext ==
    /\ g_pc \in {"created", "suspended"}
    /\ LET at == IF g_pc = "created" THEN <<g_y, g_m>> ELSE AdvanceMonth(g_y, g_m)
       IN /\ g_y' = at[1]
          /\ g_m' = at[2]
          /\ IF WhileCondition(at[1], at[2], g_args[3], g_args[4])
             THEN /\ g_out' = Append(g_out, at)
                  /\ g_pc' = "suspended"
             ELSE /\ g_out' = g_out
                  /\ g_pc' = "exhausted"
    /\ UNCHANGED <<g_args, exceptGen>>

\* A second invocation with the same arguments, once the first is consumed.
GenCallAgain ==
    /\ g_pc = "exhausted"
    /\ g_y' = g_args[1]
    /\ g_m' = g_args[2]
    /\ g_out' = <<>>
    /\ g_pc' = "created"
    /\ UNCHANGED <<g_args, exceptGen>>

NextRange == GenNext \/ GenCallAgain

\* The consumer (list(...), a for loop) keeps calling next() until exhaustion.
SpecRange == InitRange /\ [][NextRange]_vars /\ WF_vars(GenNext)

\* The position of a calendar month on the time line.
MonthOrdinal(p) == p[1] * 12 + (p[2] - 1)

\* The calendar months between the bounds of the current invocation.
MonthsBetween ==
    {p \in (RangeYears \cup {LastYear + 1}) \X RangeMonths :
        /\ MonthOrdinal(<<g_args[1], g_args[2]>>) <= MonthOrdinal(p)
        /\ MonthOrdinal(p) <= MonthOrdinal(<<g_args[3], g_args[4]>>)}

RangeYielded ==
    /\ \A k \in 1..Len(g_out) : g_out[k] \in MonthsBetween
    /\ \A k \in 1..(Len(g_out) - 1) :
           MonthOrdinal(g_out[k + 1]) = MonthOrdinal(g_out[k]) + 1
    /\ g_out # <<>> => g_out[1] = <<g_args[1], g_args[2]>>
    /\ g_pc = "exhausted" => Range(g_out) = MonthsBetween

\* C11: for months in 1..12 the generator terminates, and what it yields is
\* exactly the calendar months between the start and the end bound, inclusive,
\* each once and in strictly increasing order (December is followed by January
\* of the next year); it yields nothing when the start is after the end, and
\* every invocation starts again from the start bound.
C11_RangeExactAndTerminates ==
    /\ [](g_pc # "idle" => RangeYielded)
    /\ (g_pc \in {"created", "suspended"}) ~> (g_pc = "exhausted")

\* C11 witness: an exhausted invocation that crossed a year boundary.
C11_Witness ==
    /\ g_pc = "exhausted"
    /\ Len(g_out) >= 3
    /\ \E k \in 1..(Len(g_out) - 1) :
           /\ g_out[k][2] = 12
           /\ g_out[k + 1] = <<g_out[k][1] + 1, 1>>

\* ---------------------------------------------------------------------------
\* The store (src/database.py)
\* ---------------------------------------------------------------------------

NumBatchMonths == 2

\* The calendar month at a position of the time line.
PeriodAt(ordinal) == <<ordinal \div 12, (ordinal % 12) + 1>>

\* The last NumBatchMonths periods up to January of the last year, as
\* (year, month) pairs in calendar order.
BatchPeriods ==
    [k \in 1..NumBatchMonths |-> PeriodAt(LastYear * 12 - NumBatchMonths + k)]

\* month_str = f"{y}-{m:02d}"
MonthStr(y, m) == IntToDigits(y) \o <<"-">> \o TwoDigits(m)

StoreMonths == {MonthStr(BatchPeriods[k][1], BatchPeriods[k][2]) : k \in 1..NumBatchMonths}

\* Record lists handed to save_bulletin: what parse_bulletin returns for a
\* document of one table (one record) and of two (three records), and the
\* latter with the priority_date of its second record missing (None).
FamilyRecords == parse_bulletin(<<OtherFamilyTable>>)
EmploymentAndFamilyRecords == parse_bulletin(<<EmploymentTable, OtherFamilyTable>>)
RecordsWithNone ==
    [EmploymentAndFamilyRecords EXCEPT ![2].priority_date = <<"None">>]

SaveRecordLists == {FamilyRecords, EmploymentAndFamilyRecords, RecordsWithNone}

\* The NOT NULL constraints of table priority_dates.
ViolatesNotNull(r) ==
    \/ r.table_type = "None"
    \/ r.visa_type = "None"
    \/ r.category = <<"None">>
    \/ r.country = <<"None">>
    \/ r.priority_date = <<"None">>

RECURSIVE InsertedRows(_, _)
\* executemany: the rows inserted one after the other until one violates a
\* constraint.
InsertedRows(bulletin_id, recs) ==
    IF recs = <<>> THEN <<>>
    ELSE IF ViolatesNotNull(Head(recs)) THEN <<>>
    ELSE <<[bulletin_id |-> bulletin_id, record |-> Head(recs)]>>
         \o InsertedRows(bulletin_id, Tail(recs))

\* A table bulletins without its UNIQUE constraint.
MonthNeverTaken(bulletins, month_str) == FALSE

\* bulletin_month TEXT UNIQUE: whether an INSERT of month_str violates it.
MonthTaken(bulletins, month_str) ==
    \E b \in bulletins : b.bulletin_month = month_str

\* SELECT id FROM bulletins WHERE bulletin_month = ? ... row is not None
bulletin_exists(bulletins, month_str) ==
    \E b \in bulletins : b.bulletin_month = month_str

\* id INTEGER PRIMARY KEY AUTOINCREMENT
NextBulletinId(bulletins) ==
    IF bulletins = {} THEN 1
    ELSE 1 + (CHOOSE i \in {b.id : b \in bulletins} : \A b \in bulletins : b.id <= i)

\* What a committed transaction adds to the two tables.
CommitBulletins(bulletins, txn) ==
    bulletins \cup {[id |-> txn.bulletin_id, bulletin_month |-> txn.month_str]}

CommitDates(dates, txn) == dates \o txn.rows

\* A caller outside a call of save_bulletin.
Ready(c) == s_pc[c] \in {"idle", "returned", "raised"}

\* SQLite allows one write transaction at a time.
WriteLockFree == \A c \in Callers : s_txn[c] = NoTxn

InitStore ==
    /\ IdleExceptStore
    /\ db_bulletins = {}
    /\ db_dates = <<>>
    /\ s_pc = [c \in Callers |-> "idle"]
    /\ s_txn = [c \in Callers |-> NoTxn]
    /\ s_log = {}

\* save_bulletin up to the INSERT INTO bulletins: the statement opens the
\* transaction and takes the write lock. A month already stored violates the
\* UNIQUE constraint: the statement raises with the transaction still open
\* (no row, no lastrowid), and the lock is held until the except clause rolls
\* back.
SaveInsertBulletin(c) ==
    /\ Ready(c)
    /\ WriteLockFree
    /\ \E month_str \in StoreMonths, recs \in SaveRecordLists :
         IF MonthTaken(db_bulletins, month_str)
         THEN /\ s_pc' = [s_pc EXCEPT ![c] = "failed"]
              /\ s_txn' = [s_txn EXCEPT ![c] =
                              [month_str |-> month_str, records |-> recs,
                               bulletin_id |-> 0, rows |-> <<>>]]
         ELSE /\ s_pc' = [s_pc EXCEPT ![c] = "inserting"]
              /\ s_txn' = [s_txn EXCEPT ![c] =
                              [month_str |-> month_str, records |-> recs,
                               bulletin_id |-> NextBulletinId(db_bulletins),
                               rows |-> <<>>]]
    /\ UNCHANGED <<db_bulletins, db_dates, s_log, exceptStore>>

\* The INSERT while another connection holds the write lock, once the busy
\* timeout is over: "database is locked", rollback, re-raise.
SaveLocked(c) ==
    /\ Ready(c)
    /\ ~WriteLockFree
    /\ s_pc' = [s_pc EXCEPT ![c] = "raised"]
    /\ UNCHANGED <<db_bulletins, db_dates, s_txn, s_log, exceptStore>>

\* executemany: every record inserted, or an exception at the first record
\* that violates a constraint, the earlier rows being part of the transaction.
SaveInsertDates(c) ==
    /\ s_pc[c] = "inserting"
    /\ LET rows == InsertedRows(s_txn[c].bulletin_id, s_txn[c].records)
       IN /\ s_txn' = [s_txn EXCEPT ![c].rows = rows]
          /\ s_pc' = [s_pc EXCEPT ![c] =
                         IF Len(rows) = Len(s_txn[c].records) THEN "inserted" ELSE "failed"]
    /\ UNCHANGED <<db_bulletins, db_dates, s_log, exceptStore>>

\* conn.commit(), conn.close(), return.
SaveCommit(c) ==
    /\ s_pc[c] = "inserted"
    /\ db_bulletins' = CommitBulletins(db_bulletins, s_txn[c])
    /\ db_dates' = CommitDates(db_dates, s_txn[c])
    /\ s_log' = s_log \cup {[month_str |-> s_txn[c].month_str, records |-> s_txn[c].records]}
    /\ s_txn' = [s_txn EXCEPT ![c] = NoTxn]
    /\ s_pc' = [s_pc EXCEPT ![c] = "returned"]
    /\ UNCHANGED exceptStore

\* except Exception: conn.rollback(); raise
SaveRollback(c) ==
    /\ s_pc[c] = "failed"
    /\ s_txn' = [s_txn EXCEPT ![c] = NoTxn]
    /\ s_pc' = [s_pc EXCEPT ![c] = "raised"]
    /\ UNCHANGED <<db_bulletins, db_dates, s_log, exceptStore>>

NextStore ==
    \E c \in Callers :
        \/ SaveInsertBulletin(c)
        \/ SaveLocked(c)
        \/ SaveInsertDates(c)
        \/ SaveCommit(c)
        \/ SaveRollback(c)

SpecStore == InitStore /\ [][NextStore]_vars

\* The records stored for a month: the rows of priority_dates that belong to
\* a bulletin of that month, in insertion order.
StoredRecords(month_str) ==
    LET ids == {b.id : b \in {x \in db_bulletins : x.bulletin_month = month_str}}
        rows == SelectSeq(db_dates, LAMBDA row : row.bulletin_id \in ids)
    IN  [k \in 1..Len(rows) |-> rows[k].record]

StoreIsWhatWasSaved ==
    /\ \A b1, b2 \in db_bulletins : b1.bulletin_month = b2.bulletin_month => b1 = b2
    /\ \A k \in 1..Len(db_dates) : \E b \in db_bulletins : b.id = db_dates[k].bulletin_id
    /\ \A month_str \in StoreMonths :
          IF \E b \in db_bulletins : b.bulletin_month = month_str
          THEN \E e \in s_log : /\ e.month_str = month_str
                                /\ StoredRecords(month_str) = e.records
          ELSE /\ StoredRecords(month_str) = <<>>
               /\ \A e \in s_log : e.month_str # month_str

\* The store changes only in the step in which a call of save_bulletin
\* returns; a step in which a call raises leaves it as it was.
StoreChangesOnlyOnReturn ==
    /\ (\E c \in Callers : s_pc[c] # "raised" /\ s_pc'[c] = "raised")
          => UNCHANGED <<db_bulletins, db_dates>>
    /\ <<db_bulletins, db_dates>>' # <<db_bulletins, db_dates>>
          => \E c \in Callers : s_pc[c] = "inserted" /\ s_pc'[c] = "returned"

\* C14: a month is committed as one all-or-nothing unit keyed uniquely by
\* month: after any interleaving of save_bulletin calls by the callers the
\* store holds at most one bulletin per month, and for each month either no
\* records or exactly the full record list passed to one call that returned;
\* a call that raises (duplicate month, locked database, error while
\* inserting records) leaves the store unchanged.
C14_SaveAllOrNothing ==
    /\ []StoreIsWhatWasSaved
    /\ [][StoreChangesOnlyOnReturn]_vars

\* C14 witness: one caller's call returned and its month is stored with its
\* three records, while the executemany of the other caller has failed after
\* one row, for a month that is not stored, and is about to be rolled back.
C14_Witness ==
    \E c1, c2 \in Callers :
        /\ s_pc[c1] = "returned"
        /\ \E month_str \in StoreMonths :
               StoredRecords(month_str) = EmploymentAndFamilyRecords
        /\ s_pc[c2] = "failed"
        /\ Len(s_txn[c2].rows) = 1
        /\ ~bulletin_exists(db_bulletins, s_txn[c2].month_str)

\* ---------------------------------------------------------------------------
\* The batch drivers: scrape (src/build.py), and the Import Range and Refresh
\* Latest Bulletin handlers (src/app.py)
\* ---------------------------------------------------------------------------

RangeDrivers == {"scrape", "import_range"}

\* available[:3]
RefreshLimit == 3

\* What a GET of a bulletin page can return: a page without any bulletin
\* table, and pages with one and with two bulletin tables.
FetchablePages == {<<NotesTable>>, <<OtherFamilyTable>>, <<EmploymentTable, OtherFamilyTable>>}

\* records = parse_bulletin(html), for every page a GET can return.
ParsedPages == {parse_bulletin(html) : html \in FetchablePages}

\* What check_latest_bulletin can return: periods of the index page, none
\* twice, in the order of the links.
AvailableLists ==
    {a \in SeqsUpTo(1..NumBatchMonths, NumBatchMonths) :
        \A j, k \in 1..Len(a) : j # k => a[j] # a[k]}

\* A try statement that encloses the whole loop, whatever the driver.
ExceptClauseAroundLoop(kind) == "handler"

\* Where the except clause that catches a failure of fetch, parse or save
\* stands: inside the for loop in the range drivers, so that the loop goes on
\* with the next month, around the whole handler in the refresh handler.
ExceptClause(kind) == IF kind \in RangeDrivers THEN "loop" ELSE "handler"

\* A driver that saves whatever parse_bulletin returned.
RecordsOrNot(recs) == TRUE

\* if records:
RecordsTruthy(recs) == recs # <<>>

\* The month of the current loop iteration.
CurrentMonthStr == MonthStr(b_months[b_i][1], b_months[b_i][2])

StartRun(kind, months) ==
    /\ b_pc \in {"idle", "done"}
    /\ b_kind' = kind
    /\ b_months' = months
    /\ b_i' = 1
    /\ b_pc' = "loop"
    /\ b_records' = <<>>
    /\ b_imported' = 0
    /\ b_skipped' = 0
    /\ b_errors' = <<>>
    /\ b_fetched' = <<>>
    /\ b_saved' = <<>>
    /\ UNCHANGED <<db_bulletins, db_dates, exceptDriver>>

\* scrape(start, end) and the Import Range button, up to the for statement.
StartRange ==
    \E kind \in RangeDrivers, s, e \in 1..NumBatchMonths :
        StartRun(kind, generate_month_range(BatchPeriods[s][1], BatchPeriods[s][2],
                                            BatchPeriods[e][1], BatchPeriods[e][2]))

\* The Refresh Latest Bulletin button, up to the for statement; with an empty
\* list there is a warning and no loop.
StartRefresh ==
    \E available \in AvailableLists :
        IF available = <<>>
        THEN /\ b_pc \in {"idle", "done"}
             /\ b_kind' = "refresh"
             /\ b_months' = <<>>
             /\ b_i' = 1
             /\ b_pc' = "done"
             /\ b_records' = <<>>
             /\ b_imported' = 0
             /\ b_skipped' = 0
             /\ b_errors' = <<[prefix |-> <<>>, what |-> "no bulletins found"]>>
             /\ b_fetched' = <<>>
             /\ b_saved' = <<>>
             /\ UNCHANGED <<db_bulletins, db_dates, exceptDriver>>
        ELSE StartRun("refresh",
                      [k \in 1..(IF Len(available) < RefreshLimit THEN Len(available)
                                 ELSE RefreshLimit) |-> BatchPeriods[available[k]]])

\* check_latest_bulletin raises (the GET of the index page fails): the except
\* clause of the refresh handler shows the error.
StartRefreshFails ==
    /\ b_pc \in {"idle", "done"}
    /\ b_kind' = "refresh"
    /\ b_months' = <<>>
    /\ b_i' = 1
    /\ b_pc' = "done"
    /\ b_records' = <<>>
    /\ b_imported' = 0
    /\ b_skipped' = 0
    /\ b_errors' = <<[prefix |-> <<"E","r","r","o","r">>, what |-> "index fetch failed"]>>
    /\ b_fetched' = <<>>
    /\ b_saved' = <<>>
    /\ UNCHANGED <<db_bulletins, db_dates, exceptDriver>>

\* An exception e raised in fetch, parse or save of the current month: the
\* except clause in the loop records it against the month (f"{month_str}: {e}")
\* and the loop goes on; the except clause around the handler shows it
\* (f"Error: {e}") and the handler is over.
Raise(e) ==
    IF ExceptClause(b_kind) = "loop"
    THEN /\ b_errors' = Append(b_errors, [prefix |-> CurrentMonthStr, what |-> e])
         /\ b_i' = b_i + 1
         /\ b_pc' = "loop"
    ELSE /\ b_errors' = Append(b_errors, [prefix |-> <<"E","r","r","o","r">>, what |-> e])
         /\ b_i' = b_i
         /\ b_pc' = "done"

\* The head of a loop iteration: bulletin_exists(month_str).
LoopExists ==
    /\ b_pc = "loop"
    /\ b_i <= Len(b_months)
    /\ IF bulletin_exists(db_bulletins, CurrentMonthStr)
       THEN /\ b_skipped' = IF b_kind \in RangeDrivers THEN b_skipped + 1 ELSE b_skipped
            /\ b_i' = b_i + 1
            /\ b_pc' = "loop"
       ELSE /\ b_pc' = "fetch"
            /\ UNCHANGED <<b_skipped, b_i>>
    /\ UNCHANGED <<b_kind, b_months, b_records, b_imported, b_errors, b_fetched, b_saved,
                   db_bulletins, db_dates, exceptDriver>>

\* fetch_bulletin_page raises.
LoopFetchFails ==
    /\ b_pc = "fetch"
    /\ b_fetched' = Append(b_fetched, CurrentMonthStr)
    /\ Raise("fetch failed")
    /\ UNCHANGED <<b_kind, b_months, b_records, b_imported, b_skipped, b_saved,
                   db_bulletins, db_dates, exceptDriver>>

\* fetch_bulletin_page returns a page and parse_bulletin its records.
LoopFetchParse ==
    /\ b_pc = "fetch"
    /\ b_fetched' = Append(b_fetched, CurrentMonthStr)
    /\ \E recs \in ParsedPages :
         IF RecordsTruthy(recs)
         THEN /\ b_records' = recs
              /\ b_pc' = "save"
              /\ UNCHANGED <<b_i, b_errors>>
         ELSE /\ b_errors' = Append(b_errors,
                                    [prefix |-> CurrentMonthStr, what |-> "no data parsed"])
              /\ b_i' = b_i + 1
              /\ b_pc' = "loop"
              /\ UNCHANGED b_records
    /\ UNCHANGED <<b_kind, b_months, b_imported, b_skipped, b_saved,
                   db_bulletins, db_dates, exceptDriver>>

\* save_bulletin(month_str, records) returns: the month is committed.
LoopSave ==
    /\ b_pc = "save"
    /\ ~MonthTaken(db_bulletins, CurrentMonthStr)
    /\ LET id == NextBulletinId(db_bulletins)
           txn == [month_str |-> CurrentMonthStr, records |-> b_records,
                   bulletin_id |-> id, rows |-> InsertedRows(id, b_records)]
       IN /\ Len(txn.rows) = Len(b_records)
          /\ db_bulletins' = CommitBulletins(db_bulletins, txn)
          /\ db_dates' = CommitDates(db_dates, txn)
    /\ b_saved' = Append(b_saved, CurrentMonthStr)
    /\ b_imported' = b_imported + 1
    /\ b_i' = b_i + 1
    /\ b_pc' = "loop"
    /\ b_records' = <<>>
    /\ UNCHANGED <<b_kind, b_months, b_skipped, b_errors, b_fetched, exceptDriver>>

\* save_bulletin raises: the month has been stored since the check (UNIQUE),
\* a row violates a constraint, or the database is locked by another writer.
LoopSaveFails ==
    /\ b_pc = "save"
    /\ \E locked \in BOOLEAN :
          \/ locked
          \/ MonthTaken(db_bulletins, CurrentMonthStr)
          \/ Len(InsertedRows(0, b_records)) < Len(b_records)
    /\ b_saved' = Append(b_saved, CurrentMonthStr)
    /\ Raise("save failed")
    /\ b_records' = <<>>
    /\ UNCHANGED <<b_kind, b_months, b_imported, b_skipped, b_fetched,
                   db_bulletins, db_dates, exceptDriver>>

\* The end of the for loop: the summary of the run.
LoopEnd ==
    /\ b_pc = "loop"
    /\ b_i > Len(b_months)
    /\ b_pc' = "done"
    /\ UNCHANGED <<b_kind, b_months, b_i, b_records, b_imported, b_skipped, b_errors,
                   b_fetched, b_saved, db_bulletins, db_dates, exceptDriver>>

\* Another driver (a second session of the application, the command line
\* build) commits a month in the meantime: the effect of its save_bulletin.
OtherDriverSaves ==
    /\ b_pc \in {"loop", "fetch", "save"}
    /\ \E month_str \in StoreMonths, recs \in ParsedPages :
         LET id == NextBulletinId(db_bulletins)
             txn == [month_str |-> month_str, records |-> recs,
                     bulletin_id |-> id, rows |-> InsertedRows(id, recs)]
         IN /\ RecordsTruthy(recs)
            /\ ~MonthTaken(db_bulletins, month_str)
            /\ db_bulletins' = CommitBulletins(db_bulletins, txn)
            /\ db_dates' = CommitDates(db_dates, txn)
    /\ UNCHANGED <<driverVars, exceptDriver>>

InitBatch ==
    /\ IdleExceptDriver
    /\ DriverIdle

DriverStep ==
    \/ LoopExists
    \/ LoopFetchFails
    \/ LoopFetchParse
    \/ LoopSave
    \/ LoopSaveFails
    \/ LoopEnd

NextBatch ==
    \/ StartRange
    \/ StartRefresh
    \/ StartRefreshFails
    \/ DriverStep
    \/ OtherDriverSaves

\* A driver that has started runs on: every step of its loop takes a bounded
\* time (the GET has a timeout).
SpecBatch == InitBatch /\ [][NextBatch]_vars /\ WF_vars(DriverStep)

\* The outcomes a range driver has counted so far.
OutcomesCounted == b_imported + b_skipped + Len(b_errors)

RangeRunCounts ==
    b_kind \in RangeDrivers =>
        /\ b_pc \in {"loop", "fetch", "save", "done"}
        /\ b_i \in 1..(Len(b_months) + 1)
        /\ OutcomesCounted = b_i - 1
        /\ b_pc \in {"fetch", "save"} => b_i <= Len(b_months)
        /\ b_pc = "done" => /\ b_i = Len(b_months) + 1
                            /\ OutcomesCounted = Len(b_months)

\* A range driver moves through its list one month at a time, in order.
RangeRunInOrder ==
    (b_kind \in RangeDrivers /\ b_kind' = b_kind /\ b_pc # "done")
        => /\ b_months' = b_months
           /\ b_i' \in {b_i, b_i + 1}

\* C12: a range driver (scrape, Import Range) never aborts on a failure:
\* whatever fails in fetch, parse or save, it goes through the months of the
\* generated range in order, one at a time, and reaches its summary, where
\* imported + skipped + the number of recorded errors is the number of months
\* of the range.
C12_RangeDriverCompletes ==
    /\ []RangeRunCounts
    /\ [][RangeRunInOrder]_vars
    /\ (b_kind \in RangeDrivers /\ b_pc \in {"loop", "fetch", "save"}) ~> (b_pc = "done")

\* C12 witness: the summary of a range run over every period, in which the
\* fetch of the first month failed and a later month was imported.
C12_Witness ==
    /\ b_kind \in RangeDrivers
    /\ b_pc = "done"
    /\ Len(b_months) = NumBatchMonths
    /\ b_errors # <<>>
    /\ b_errors[1] = [prefix |-> MonthStr(b_months[1][1], b_months[1][2]), what |-> "fetch failed"]
    /\ b_imported >= 1

\* C13: in the refresh handler a fetch failure for one month does not prevent
\* the remaining months of that refresh from being fetched, parsed and saved:
\* when the handler is over, the loop has reached the last month of its list.
C13_RefreshSurvivesFetchFailure ==
    (b_kind = "refresh" /\ b_pc = "done") =>
        \A k \in 1..Len(b_errors) :
            b_errors[k].what = "fetch failed" => b_i >= Len(b_months)

\* The months that have a bulletin in the store.
MonthsInStore == {b.bulletin_month : b \in db_bulletins}

\* The entries of errors that say "no data parsed".
NoDataEntries == {k \in 1..Len(b_errors) : b_errors[k].what = "no data parsed"}

NoEmptyBulletin ==
    /\ \A month_str \in MonthsInStore : StoredRecords(month_str) # <<>>
    /\ b_pc = "save" => b_records # <<>>
    /\ \A k \in NoDataEntries :
          /\ b_errors[k].prefix \in StoreMonths
          /\ b_errors[k].prefix \notin Range(b_saved)
          /\ \A j \in NoDataEntries : b_errors[j].prefix = b_errors[k].prefix => j = k

\* The step that finds no records appends its entry and does nothing else but
\* go on with the next month.
NoDataStep ==
    (/\ b_pc = "fetch"
     /\ Len(b_errors') = Len(b_errors) + 1
     /\ b_errors'[Len(b_errors')].what = "no data parsed")
        => /\ b_errors' = Append(b_errors, [prefix |-> CurrentMonthStr, what |-> "no data parsed"])
           /\ UNCHANGED <<db_bulletins, db_dates, b_imported, b_saved, b_months>>
           /\ b_i' = b_i + 1
           /\ b_pc' = "loop"

\* C17: when a fetched document parses to zero records the driver saves
\* nothing for that month, records exactly one "no data parsed" entry for it,
\* does not count it as imported and goes on with the next month; save_bulletin
\* is never called with an empty list, and no bulletin in the store has zero
\* records.
C17_NoDataNothingSaved ==
    /\ []NoEmptyBulletin
    /\ [][NoDataStep]_vars

\* C17 witness: the summary of a range run over every period in which one
\* month parsed to no records and is still not in the store, and another
\* month was imported.
C17_Witness ==
    /\ b_kind \in RangeDrivers
    /\ b_pc = "done"
    /\ Len(b_months) = NumBatchMonths
    /\ b_imported = 1
    /\ \E k \in NoDataEntries : b_errors[k].prefix \notin MonthsInStore

\* A driver step at the head of a loop iteration whose month is in the store.
StepOnStoredMonth ==
    /\ b_pc = "loop"
    /\ b_i <= Len(b_months)
    /\ CurrentMonthStr \in MonthsInStore
    /\ driverVars' # driverVars

NoFetchNoSave ==
    /\ b_fetched' = b_fetched
    /\ b_saved' = b_saved
    /\ b_i' = b_i + 1
    /\ b_pc' = "loop"
    /\ UNCHANGED <<db_bulletins, db_dates, b_imported, b_errors>>

\* What the store holds for a month never changes once the month is stored.
StoredNeverChanges ==
    \A month_str \in MonthsInStore :
        /\ month_str \in MonthsInStore'
        /\ StoredRecords(month_str)' = StoredRecords(month_str)

\* C19: for a month already in the store every batch driver (scrape, Import
\* Range, Refresh Latest Bulletin) performs no fetch and no save, counts the
\* month as skipped and leaves the stored records unchanged; the records
\* stored for a month never change after the first successful save. The
\* refresh handler keeps no skipped count, so its step on a stored month
\* violates the first conjunct.
C19_StoredMonthSkipped ==
    /\ [][StepOnStoredMonth => (NoFetchNoSave /\ b_skipped' = b_skipped + 1)]_vars
    /\ [][StoredNeverChanges]_vars

\* ---------------------------------------------------------------------------
\* Claims about parse_bulletin: tables without countries, repeated calls
\* ---------------------------------------------------------------------------

\* The index of the first of the tables parsed so far that is counted for vt
\* (0 when there is none).
FirstCounted(vt) ==
    IF \E i \in 1..(ti - 1) : Counted(tables[i], vt)
    THEN CHOOSE i \in 1..(ti - 1) :
             /\ Counted(tables[i], vt)
             /\ \A j \in 1..(i - 1) : ~Counted(tables[j], vt)
    ELSE 0

\* C18: a table classified as visa_type V whose header gives no country emits
\* no records yet advances V's counter; so when it is the first V table of the
\* document, the next V table is labelled filing and the document has no
\* final_action record for V.
C18_EmptyHeaderStillCounts ==
    (pc \in {"loop", "returned"} /\ ti > 1) =>
        \A vt \in VisaTypes :
            /\ (Counted(LastTable, vt) /\ NumCountries(LastTable[1]) = 0) =>
                  /\ emitted = <<>>
                  /\ seen_count[vt] = Rank(ti - 1, vt)
            /\ (FirstCounted(vt) # 0 /\ NumCountries(tables[FirstCounted(vt)][1]) = 0) =>
                  /\ \A k \in 1..Len(records) :
                        records[k].visa_type = vt => records[k].table_type = "filing"
                  /\ (Counted(LastTable, vt) /\ Rank(ti - 1, vt) = 2) =>
                        \A k \in 1..Len(emitted) : emitted[k].rec.table_type = "filing"

\* C18 witness: a document whose first family table has no country cell and
\* whose second family table has given records: all of them filing.
C18_Witness ==
    /\ pc = "returned"
    /\ Len(tables) = 2
    /\ Counted(tables[1], "family")
    /\ NumCountries(tables[1][1]) = 0
    /\ Counted(tables[2], "family")
    /\ Len(records) >= 2
    /\ \A k \in 1..Len(records) : records[k].table_type = "filing"

MaxReparseTables == 2

ReparseTables == {EmploymentTable, FamilyTable, NotesTable, NoCountryTable}

\* The documents handed to parse_bulletin one call after the other.
ReparseDocuments == SeqsUpTo(ReparseTables, MaxReparseTables)

\* Counters kept from the previous call.
KeptSeenCount == seen_count

\* seen_count = {"family": 0, "employment": 0}, at the entry of every call
EntrySeenCount == [family |-> 0, employment |-> 0]

InitReparse ==
    /\ IdleExceptParse
    /\ tables \in ReparseDocuments
    /\ ti = 1
    /\ seen_count = [family |-> 0, employment |-> 0]
    /\ records = <<>>
    /\ emitted = <<>>
    /\ pc = "loop"
    /\ p_prev = NoPreviousCall

\* The next call of parse_bulletin, on any document, after one has returned.
ParseAgain ==
    /\ pc = "returned"
    /\ \E doc \in ReparseDocuments : tables' = doc
    /\ ti' = 1
    /\ seen_count' = EntrySeenCount
    /\ records' = <<>>
    /\ emitted' = <<>>
    /\ pc' = "loop"
    /\ p_prev' = [valid |-> TRUE, doc |-> tables, records |-> records]
    /\ UNCHANGED exceptParse

NextReparse == ParseTable \/ ParseReturn \/ ParseAgain

SpecReparse == InitReparse /\ [][NextReparse]_vars

\* C15: parse_bulletin keeps no state between documents: whatever was parsed
\* before, a call returns what parse_bulletin returns for its document alone,
\* the counters starting at zero; so parsing the same document twice in a row
\* gives the same record list.
C15_ParseDeterministic ==
    pc = "returned" =>
        /\ records = parse_bulletin(tables)
        /\ (p_prev.valid /\ p_prev.doc = tables) => records = p_prev.records

\* C15 witness: a document with a family table parsed for the second time in
\* a row: its records are final_action again.
C15_Witness ==
    /\ pc = "returned"
    /\ p_prev.valid
    /\ p_prev.doc = tables
    /\ tables = <<FamilyTable>>
    /\ records # <<>>
    /\ records = p_prev.records
    /\ records[1].table_type = "final_action"

\* ---------------------------------------------------------------------------
\* check_latest_bulletin (src/scraper.py)
\* ---------------------------------------------------------------------------

MaxLinks == 3

FilenamePrefix == <<"v","i","s","a","-","b","u","l","l","e","t","i","n","-","f","o","r","-">>
FilenameSuffix == <<".","h","t","m","l">>

\* Whether the literal lit stands in s at position i.
LiteralAt(s, i, lit) ==
    /\ i >= 1
    /\ i + Len(lit) - 1 <= Len(s)
    /\ SubSeq(s, i, i + Len(lit) - 1) = lit

RECURSIVE WordRunEnd(_, _)
\* The last position of the run of \w characters of s that starts at i
\* (i - 1 when there is none): what the greedy \w+ takes.
WordRunEnd(s, i) ==
    IF i <= Len(s) /\ IsWord(s[i]) THEN WordRunEnd(s, i + 1) ELSE i - 1

\* The match of visa-bulletin-for-(\w+)-(\d{4})\.html at position i of s: its
\* two groups, or no match. The character after \w+ has to be "-", which is
\* not a \w character, so that no shorter \w+ can match where the greedy one
\* does not.
MatchAt(s, i) ==
    LET j == i + Len(FilenamePrefix)
        e == WordRunEnd(s, j)
    IN  IF /\ LiteralAt(s, i, FilenamePrefix)
           /\ e >= j
           /\ LiteralAt(s, e + 1, <<"-">>)
           /\ e + 5 <= Len(s)
           /\ AllDigits(SubSeq(s, e + 2, e + 5))
           /\ LiteralAt(s, e + 6, FilenameSuffix)
        THEN [matched |-> TRUE, group1 |-> SubSeq(s, j, e), group2 |-> SubSeq(s, e + 2, e + 5)]
        ELSE [matched |-> FALSE, group1 |-> <<>>, group2 |-> <<>>]

RECURSIVE SearchFrom(_, _)
\* re.search: the match at the leftmost position where there is one.
SearchFrom(s, i) ==
    IF i > Len(s) THEN [matched |-> FALSE, group1 |-> <<>>, group2 |-> <<>>]
    ELSE IF MatchAt(s, i).matched THEN MatchAt(s, i)
    ELSE SearchFrom(s, i + 1)

ReSearch(href) == SearchFrom(href, 1)

\* month_name in MONTH_NAMES
IsMonthName(name) == \E k \in 1..Len(MONTH_NAMES) : MONTH_NAMES[k] = name

\* MONTH_NAMES.index(month_name) + 1
MonthNumber(name) == CHOOSE k \in 1..Len(MONTH_NAMES) : MONTH_NAMES[k] = name

\* A scan that never finds a tuple in the list.
NeverInList(entry, bulletins) == FALSE

\* (year, month_num, month_str) in bulletins
InList(entry, bulletins) == \E k \in 1..Len(bulletins) : bulletins[k] = entry

\* One iteration of the loop over the links: bulletins after it.
ScanLink(bulletins, href) ==
    LET match == ReSearch(href)
    IN  IF ~match.matched THEN bulletins
        ELSE LET month_name == Lower(match.group1)
                 year == DigitsToInt(match.group2)
             IN  IF ~IsMonthName(month_name) THEN bulletins
                 ELSE LET month_num == MonthNumber(month_name)
                          entry == [year |-> year, month |-> month_num,
                                    month_str |-> MonthStr(year, month_num)]
                      IN  IF InList(entry, bulletins) THEN bulletins
                          ELSE Append(bulletins, entry)

RECURSIVE ScanFrom(_, _, _)
ScanFrom(links, i, bulletins) ==
    IF i > Len(links) THEN bulletins
    ELSE ScanFrom(links, i + 1, ScanLink(bulletins, links[i]))

\* check_latest_bulletin on an index page with these links.
check_latest_bulletin(links) == ScanFrom(links, 1, <<>>)

\* The href of links of an index page: two spellings of one bulletin, another
\* bulletin, an unknown month name, a page that is no bulletin, a year of five
\* digits, and a path in which a bulletin name follows one of an unknown month.
LinkVocabulary ==
    { <<"/","l","a","w","/","v","i","s","a","-","b","u","l","l","e","t","i","n","-","f","o","r","-","o","c","t","o","b","e","r","-","2","0","2","5",".","h","t","m","l">>,
      <<"v","i","s","a","-","b","u","l","l","e","t","i","n","-","f","o","r","-","O","c","t","o","b","e","r","-","2","0","2","5",".","h","t","m","l">>,
      <<"/","2","0","2","6","/","v","i","s","a","-","b","u","l","l","e","t","i","n","-","f","o","r","-","j","a","n","u","a","r","y","-","2","0","2","6",".","h","t","m","l">>,
      <<"/","v","i","s","a","-","b","u","l","l","e","t","i","n","-","f","o","r","-","o","c","t","o","b","r","e","-","2","0","2","5",".","h","t","m","l">>,
      <<"/","a","b","o","u","t",".","h","t","m","l">>,
      <<"/","v","i","s","a","-","b","u","l","l","e","t","i","n","-","f","o","r","-","m","a","y","-","2","0","2","5","5",".","h","t","m","l">>,
      <<"/","v","i","s","a","-","b","u","l","l","e","t","i","n","-","f","o","r","-","f","o","o","-","2","0","2","4",".","h","t","m","l","/","v","i","s","a","-","b","u","l","l","e","t","i","n","-","f","o","r","-","m","a","y","-","2","0","2","4",".","h","t","m","l">> }

LinkLists == SeqsUpTo(LinkVocabulary, MaxLinks)

InitDiscover ==
    /\ IdleExceptDiscover
    /\ d_links \in LinkLists
    /\ d_i = 1
    /\ d_bulletins = <<>>
    /\ d_pc = "loop"

\* for link in soup.find_all("a", href=True): one iteration
DiscoverLink ==
    /\ d_pc = "loop"
    /\ d_i <= Len(d_links)
    /\ d_bulletins' = ScanLink(d_bulletins, d_links[d_i])
    /\ d_i' = d_i + 1
    /\ UNCHANGED <<d_links, d_pc, exceptDiscover>>

\* return bulletins
DiscoverReturn ==
    /\ d_pc = "loop"
    /\ d_i > Len(d_links)
    /\ d_pc' = "returned"
    /\ UNCHANGED <<d_links, d_i, d_bulletins, exceptDiscover>>

NextDiscover == DiscoverLink \/ DiscoverReturn

SpecDiscover == InitDiscover /\ [][NextDiscover]_vars

\* The places of a link where the bulletin filename pattern stands: position
\* i and a name of n letters, digits or underscores, followed by a hyphen,
\* four digits and ".html".
PatternPlaces(href) ==
    UNION {{<<i, n>> : n \in {n \in 1..Len(href) :
                /\ i + 17 + n + 10 <= Len(href)
                /\ \A k \in (i + 18)..(i + 17 + n) : IsWord(href[k])
                /\ href[i + 18 + n] = "-"
                /\ \A k \in (i + 19 + n)..(i + 22 + n) : IsDigit(href[k])
                /\ SubSeq(href, i + 23 + n, i + 27 + n) = FilenameSuffix}}
           : i \in {i \in 1..Len(href) :
                /\ i + 17 <= Len(href)
                /\ SubSeq(href, i, i + 17) = FilenamePrefix}}

\* The period a link stands for: the month name and the year at the leftmost
\* place of the pattern, when the name, letter case aside, is a month name.
HasPeriod(href) ==
    /\ PatternPlaces(href) # {}
    /\ LET p == CHOOSE p \in PatternPlaces(href) : \A q \in PatternPlaces(href) : p[1] <= q[1]
       IN  \E mo \in 1..12 : MONTH_NAMES[mo] = Lower(SubSeq(href, p[1] + 18, p[1] + 17 + p[2]))

PeriodOf(href) ==
    LET p == CHOOSE p \in PatternPlaces(href) : \A q \in PatternPlaces(href) : p[1] <= q[1]
        mo == CHOOSE mo \in 1..12 : MONTH_NAMES[mo] = Lower(SubSeq(href, p[1] + 18, p[1] + 17 + p[2]))
    IN  <<DigitsToInt(SubSeq(href, p[1] + 19 + p[2], p[1] + 22 + p[2])), mo>>

\* The links scanned so far that stand for a period.
PeriodLinks == {k \in 1..(d_i - 1) : HasPeriod(d_links[k])}

\* The first link that stands for the period of the k-th entry of bulletins.
FirstLinkOf(k) ==
    CHOOSE j \in PeriodLinks :
        /\ PeriodOf(d_links[j]) = <<d_bulletins[k].year, d_bulletins[k].month>>
        /\ \A h \in PeriodLinks :
              PeriodOf(d_links[h]) = <<d_bulletins[k].year, d_bulletins[k].month>> => j <= h

\* C16: after any number of links, and at the return, bulletins holds the
\* periods of the links scanned that match the bulletin filename pattern with
\* a recognised month name, none twice, in the order of their first
\* occurrence; a link that does not match or names no month adds nothing,
\* and the scan goes on to the last link.
C16_DiscoverPeriods ==
    d_pc \in {"loop", "returned"} =>
        /\ {<<d_bulletins[k].year, d_bulletins[k].month>> : k \in 1..Len(d_bulletins)}
              = {PeriodOf(d_links[j]) : j \in PeriodLinks}
        /\ \A k, l \in 1..Len(d_bulletins) :
              <<d_bulletins[k].year, d_bulletins[k].month>>
                 = <<d_bulletins[l].year, d_bulletins[l].month>> => k = l
        /\ \A k, l \in 1..Len(d_bulletins) : k < l => FirstLinkOf(k) < FirstLinkOf(l)
        /\ \A k \in 1..Len(d_bulletins) :
              d_bulletins[k].month_str
                 = MonthStr(d_bulletins[k].year, d_bulletins[k].month)
        /\ d_pc = "returned" => d_i = Len(d_links) + 1

\* C16 witness: the scan has returned one period for three links, the
\* second of which names no month and the third of which repeats the first
\* in another spelling.
C16_Witness ==
    /\ d_pc = "returned"
    /\ Len(d_links) = 3
    /\ HasPeriod(d_links[1])
    /\ ~HasPeriod(d_links[2])
    /\ PatternPlaces(d_links[2]) # {}
    /\ HasPeriod(d_links[3])
    /\ d_links[3] # d_links[1]
    /\ PeriodOf(d_links[3]) = PeriodOf(d_links[1])
    /\ Len(d_bulletins) = 1

=============================================================================
